---- MODULE Spec2Model ----
(***************************************************************************)
(* Model of the aggregation server of browser-tools-server                 *)
(* (browser-connector.ts): the in-memory log buffers, the settings record, *)
(* the ingestion / query / wipe HTTP handlers and the screenshot           *)
(* request/response correlation over the extension WebSocket.              *)
(*                                                                         *)
(* Spec         : the HTTP handlers over the buffers and settings.         *)
(* SpecShot     : the screenshot correlator (captureScreenshot, the        *)
(*                WebSocket message / close handlers, the timeout timers). *)
(* SpecDiscover : the server discovery of the MCP server (mcp-server.ts),  *)
(*                one discoverServer call at a time.                       *)
(* SpecShotSerial : SpecShot with a caller that keeps at most one capture  *)
(*                request in flight and replies that arrive in time.       *)
(* SpecNorm     : the payload normalizer (truncateStringsInData of the     *)
(*                extension and of the server, processArrayWithSizeLimit)  *)
(*                applied to bounded sets of values.                       *)
(* SpecCall     : withServerConnection of the MCP server around one API    *)
(*                call, one tool call at a time.                           *)
(* SpecPort     : getAvailablePort at server startup.                      *)
(* SpecAgent    : the WebSocket of the capture agent (setupWebSocket of    *)
(*                devtools.js) while DevTools stays open.                  *)
(***************************************************************************)
EXTENDS Integers, Sequences, FiniteSets, TLC

\* ------------------------------------------------------------------------
\* Bounds of the model
\* ------------------------------------------------------------------------
\* number of POST /extension-log calls explored in one behaviour
MaxIngest == 3
\* number of POST /capture-screenshot calls explored in one behaviour
MaxReqs == 2
\* number of WebSocket connections the extension side opens in one behaviour
MaxSockets == 2
\* largest maxAttempts getAvailablePort is called with
MaxAttempts == 2
\* number of WebSockets the capture agent creates in one behaviour
MaxAgentSockets == 3
\* how long the capture agent is followed, in reconnect delays
MaxClock == 3
\* how far (ms) the clock is explored beyond one screenshot timeout
MaxSkew == 1
\* number of discoverServer calls explored in one behaviour
MaxDiscover == 2
\* longest string given to the normalizer (over the letters a, b)
MaxStringLen == 3
\* largest small character limit given to the normalizer
MaxLimit == 4
\* longest array given to processArrayWithSizeLimit
MaxArrayLen == 2

\* ------------------------------------------------------------------------
\* Program constants
\* ------------------------------------------------------------------------
DefaultLogLimit == 50
DefaultQueryLimit == 30000
DefaultStringSizeLimit == 500
DefaultMaxLogSize == 20000
ScreenshotTimeout == 10000
\* discovery: the default port and the fallback range of ports
DefaultPort == 3025
FirstPort == 3025
LastPort == 3035
\* normalizer: the deepest recursion that is still processed
MaxDepth == 100

VARIABLES
  \* ---- module-level state of browser-connector.ts ----
  consoleLogs, consoleErrors, networkErrors, networkSuccess, allXhr,
  currentSettings, selectedElement,
  \* ---- observation of the HTTP handlers ----
  lastOp,        \* the handler that ran last and the response it sent
  nIngest,       \* number of POST /extension-log calls so far
  arrived,       \* per buffer: the appends since it was last empty, each with
                 \* the settings in force at that append
  heldLimit,     \* per buffer: the logLimit in force at every append recorded
                 \* in arrived and ever since, or -1 once logLimit has changed
  \* ---- screenshot correlator ----
  activeConnection,     \* 0 (null) or the socket of the connected extension
  sockets,              \* per socket: "new", "open" or "closed"
  screenshotCallbacks,  \* the Map, in insertion order: <<[key, req], ...>>
  now,                  \* Date.now(), in ms
  nReq,                 \* number of POST /capture-screenshot calls so far
  reqId,                \* per request: its requestId ("" before it has one)
  promise,              \* per request: state of its screenshotPromise
  timer,                \* per request: "none", "armed" or "fired"
  due,                  \* per request: the time its timer is due
  http,                 \* per request: the HTTP responses sent, in order
  msgSeen,              \* a screenshot-data / screenshot-error message has arrived
  orphaned,             \* the pending requests that were pending when the
                        \* active connection closed
  \* ---- server discovery of the MCP server (mcp-server.ts) ----
  discoveredHost, discoveredPort, serverDiscovered,
  envHost, envPort,     \* getDefaultServerHost() / getDefaultServerPort() of the call
  scan,                 \* 0: no discoverServer call is running; i >= 1: the call
                        \* is about to fetch its i-th candidate
  atCall,               \* discoveredHost, discoveredPort, serverDiscovered when
                        \* the last discoverServer call started
  returned,             \* what the last discoverServer call returned
  nDiscover,            \* number of discoverServer calls so far
  \* ---- payload normalizer (devtools.js, browser-connector.ts) ----
  norm,                 \* the last call of the normalizer: its arguments and result
  \* ---- withServerConnection of the MCP server (mcp-server.ts) ----
  wscPc,                \* where the running withServerConnection call stands
  apiCalls,             \* how often that call has invoked apiCall()
  wscResult,            \* what that call returned ("none" while it runs)
  firstThrew,           \* the first apiCall() of that call threw
  \* ---- getAvailablePort of the server startup ----
  listenOutcome,        \* per port: what a test listen on it gives
  portArgs,             \* startPort and maxAttempts of the call
  currentPort, attempts,
  listened,             \* the ports the call has tried to listen on, in order
  portResult,           \* "idle", "running", "returned" (currentPort) or "thrown"
  \* ---- WebSocket of the capture agent (devtools.js) ----
  ws,                   \* the socket held in ws
  wsReconnectTimeout,   \* 0 (null) or the timer held in wsReconnectTimeout
  agentSockets,         \* per socket: "none" (not created), "connecting",
                        \* "open", "closing" or "closed"
  agentTimers,          \* per timer: "none", "armed", "fired" or "cleared"
  agentDue,             \* per timer: when it is due
  agentNow,             \* the clock of the agent, in ms
  agentOpened           \* the sockets that have been open

logVars == <<consoleLogs, consoleErrors, networkErrors, networkSuccess, allXhr,
             currentSettings, selectedElement, lastOp, nIngest, arrived, heldLimit>>
shotVars == <<activeConnection, sockets, screenshotCallbacks, now, nReq,
              reqId, promise, timer, due, http, msgSeen, orphaned>>
discVars == <<discoveredHost, discoveredPort, serverDiscovered, envHost, envPort,
              scan, atCall, returned, nDiscover>>
normVars == <<norm>>
callVars == <<wscPc, apiCalls, wscResult, firstThrew>>
portVars == <<listenOutcome, portArgs, currentPort, attempts, listened, portResult>>
agentVars == <<ws, wsReconnectTimeout, agentSockets, agentTimers, agentDue,
               agentNow, agentOpened>>
vars == <<logVars, shotVars, discVars, normVars, callVars, portVars, agentVars>>

\* ------------------------------------------------------------------------
\* JSON serialisation (JSON.stringify) of the records the server handles
\* ------------------------------------------------------------------------
\* order in which the extension writes the keys of a record
KeyOrder == <<"type", "level", "message", "url", "method", "status",
              "requestHeaders", "responseHeaders", "timestamp">>
StringKeys == {"type", "level", "message", "url", "method"}
NumberKeys == {"status", "timestamp"}

Quote(s) == "\"" \o s \o "\""

RECURSIVE Join(_, _)
Join(strs, sep) ==
  IF Len(strs) = 0 THEN ""
  ELSE IF Len(strs) = 1 THEN strs[1]
  ELSE strs[1] \o sep \o Join(Tail(strs), sep)

\* a header object is a sequence of <<name, value>> pairs
StringifyHeaders(h) ==
  "{" \o Join([i \in 1..Len(h) |-> Quote(h[i][1]) \o ":" \o Quote(h[i][2])], ",") \o "}"

StringifyValue(k, v) ==
  IF k \in StringKeys THEN Quote(v)
  ELSE IF k \in NumberKeys THEN ToString(v)
  ELSE StringifyHeaders(v)

\* the keys of log, in writing order
PresentKeys(log) == SelectSeq(KeyOrder, LAMBDA k : k \in DOMAIN log)

Stringify(log) ==
  LET ks == PresentKeys(log)
  IN "{" \o Join([i \in 1..Len(ks) |->
                    Quote(ks[i]) \o ":" \o StringifyValue(ks[i], log[ks[i]])], ",") \o "}"

\* JSON.stringify of an array of records, the body res.json(logs) sends
StringifyArray(logs) ==
  "[" \o Join([i \in 1..Len(logs) |-> Stringify(logs[i])], ",") \o "]"

\* ------------------------------------------------------------------------
\* Helpers of browser-connector.ts
\* ------------------------------------------------------------------------
processLogsWithSettings_keep(logs, settings) == logs

processLogsWithSettings(logs, settings) ==
  [i \in 1..Len(logs) |->
    LET log == logs[i]
        drop == IF "type" \in DOMAIN log /\ log["type"] = "network-request"
                THEN (IF ~settings.showRequestHeaders THEN {"requestHeaders"} ELSE {})
                     \cup (IF ~settings.showResponseHeaders THEN {"responseHeaders"} ELSE {})
                ELSE {}
    IN [k \in (DOMAIN log) \ drop |-> log[k]]]

calculateLogSize(log) == Len(Stringify(log))

\* variant: the limit is tested before the next log is added
RECURSIVE TruncateLoop_late(_, _, _, _, _)
TruncateLoop_late(processedLogs, i, currentSize, result, queryLimit) ==
  IF i > Len(processedLogs) THEN result
  ELSE LET logSize == calculateLogSize(processedLogs[i])
       IN IF currentSize > queryLimit
          THEN result
          ELSE TruncateLoop_late(processedLogs, i + 1, currentSize + logSize,
                                 Append(result, processedLogs[i]), queryLimit)

\* variant: an oversized log is skipped and the loop goes on
RECURSIVE TruncateLoop_skip(_, _, _, _, _)
TruncateLoop_skip(processedLogs, i, currentSize, result, queryLimit) ==
  IF i > Len(processedLogs) THEN result
  ELSE LET logSize == calculateLogSize(processedLogs[i])
       IN IF currentSize + logSize > queryLimit
          THEN TruncateLoop_skip(processedLogs, i + 1, currentSize, result, queryLimit)
          ELSE TruncateLoop_skip(processedLogs, i + 1, currentSize + logSize,
                                 Append(result, processedLogs[i]), queryLimit)

\* the loop of truncateLogsToQueryLimit over the processed logs:
\* i is the next index, currentSize the running total, result the logs kept
RECURSIVE TruncateLoop(_, _, _, _, _)
TruncateLoop(processedLogs, i, currentSize, result, queryLimit) ==
  IF i > Len(processedLogs) THEN result
  ELSE LET logSize == calculateLogSize(processedLogs[i])
       IN IF currentSize + logSize > queryLimit
          THEN result
          ELSE TruncateLoop(processedLogs, i + 1, currentSize + logSize,
                            Append(result, processedLogs[i]), queryLimit)

truncateLogsToQueryLimit(logs, settings) ==
  IF Len(logs) = 0 THEN logs
  ELSE TruncateLoop(processLogsWithSettings(logs, settings), 1, 0, <<>>,
                    settings.queryLimit)

\* stable sort by timestamp (Array.prototype.sort with a numeric comparator)
RECURSIVE InsertByTimestamp(_, _)
InsertByTimestamp(sorted, log) ==
  IF Len(sorted) = 0 THEN <<log>>
  ELSE IF sorted[Len(sorted)].timestamp <= log.timestamp THEN Append(sorted, log)
  ELSE Append(InsertByTimestamp(SubSeq(sorted, 1, Len(sorted) - 1), log),
              sorted[Len(sorted)])

\* variant: the merged logs are left in concatenation order
SortByTimestamp_none(logs) == logs

RECURSIVE SortByTimestamp(_)
SortByTimestamp(logs) ==
  IF Len(logs) = 0 THEN <<>>
  ELSE InsertByTimestamp(SortByTimestamp(SubSeq(logs, 1, Len(logs) - 1)),
                         logs[Len(logs)])

\* ------------------------------------------------------------------------
\* What each GET endpoint returns in the current state
\* ------------------------------------------------------------------------
\* variant: the console logs are sorted by timestamp before they are served
QueryConsoleLogs_sorted ==
  truncateLogsToQueryLimit(SortByTimestamp(consoleLogs), currentSettings)

QueryConsoleLogs == truncateLogsToQueryLimit(consoleLogs, currentSettings)
QueryConsoleErrors == truncateLogsToQueryLimit(consoleErrors, currentSettings)
QueryNetworkErrors == truncateLogsToQueryLimit(networkErrors, currentSettings)
QueryNetworkSuccess == truncateLogsToQueryLimit(networkSuccess, currentSettings)
QueryAllXhr ==
  truncateLogsToQueryLimit(SortByTimestamp(networkSuccess \o networkErrors),
                           currentSettings)
NoElementSelected == [message |-> "No element selected"]
Null == [null |-> TRUE]
\* variant: the slot is served as it is, without the placeholder
QuerySelectedElement_raw == selectedElement

QuerySelectedElement ==
  IF selectedElement = Null THEN NoElementSelected ELSE selectedElement

\* ------------------------------------------------------------------------
\* Requests explored
\* ------------------------------------------------------------------------
Headers == <<<<"cookie", "s">>>>

ConsoleLogA == [type |-> "console-log", message |-> "a", timestamp |-> 1]
ConsoleLogB == [type |-> "console-log",
                message |-> "bbbbbbbbbbbbbbbbbbbbbbbbbbbbbbbbbbbbbbbbbbbbbbbbbbbbbbbbbbbbbbbb",
                timestamp |-> 2]
ConsoleErrorA == [type |-> "console-error", message |-> "e", timestamp |-> 3]
\* a console log whose message (576 characters) is longer than stringSizeLimit
ConsoleLogLong ==
  LET m == ConsoleLogB.message
  IN [type |-> "console-log",
      message |-> m \o m \o m \o m \o m \o m \o m \o m \o m,
      timestamp |-> 6]
NetworkOk == [type |-> "network-request", status |-> 200,
              requestHeaders |-> Headers, responseHeaders |-> Headers,
              timestamp |-> 2]
NetworkNotFound == [type |-> "network-request", status |-> 404,
                    requestHeaders |-> Headers, timestamp |-> 1]
ElementA == [tagName |-> "DIV", id |-> "a"]
ElementB == [tagName |-> "P", id |-> "b"]
SelectedA == [type |-> "selected-element", timestamp |-> 4, element |-> ElementA]
Unknown == [type |-> "page-event", timestamp |-> 5]

DataSet == {ConsoleLogA, ConsoleLogB, ConsoleLogLong, ConsoleErrorA, NetworkOk,
            NetworkNotFound, SelectedA, Unknown}

\* the size of one serialized ConsoleLogA: a queryLimit that admits exactly it
TightQueryLimit == calculateLogSize(ConsoleLogA)

SettingsSet == {[logLimit |-> 1], [logLimit |-> 2],
                [queryLimit |-> TightQueryLimit],
                [showRequestHeaders |-> TRUE, showResponseHeaders |-> TRUE],
                [showRequestHeaders |-> FALSE]}

\* the bodies of POST /extension-log: data alone, settings alone, neither,
\* and data together with a logLimit
Bodies ==
  {[data |-> d] : d \in DataSet}
  \cup {[settings |-> s] : s \in SettingsSet}
  \cup {[padding |-> 0]}
  \cup {[data |-> d, settings |-> s] :
          d \in {ConsoleLogA}, s \in {[logLimit |-> 1], [logLimit |-> 2]}}

BufferNames == {"consoleLogs", "consoleErrors", "networkErrors", "networkSuccess"}

\* ------------------------------------------------------------------------
\* Initial state: the module-level declarations of browser-connector.ts
\* ------------------------------------------------------------------------
InitLog ==
  /\ consoleLogs = <<>>
  /\ consoleErrors = <<>>
  /\ networkErrors = <<>>
  /\ networkSuccess = <<>>
  /\ allXhr = <<>>
  /\ currentSettings = [logLimit |-> DefaultLogLimit,
                        queryLimit |-> DefaultQueryLimit,
                        showRequestHeaders |-> FALSE,
                        showResponseHeaders |-> FALSE,
                        model |-> "claude-3-sonnet",
                        stringSizeLimit |-> DefaultStringSizeLimit,
                        maxLogSize |-> DefaultMaxLogSize,
                        screenshotPath |-> "~/Downloads/mcp-screenshots"]
  /\ selectedElement = Null
  /\ lastOp = [op |-> "start", status |-> 0, result |-> <<>>]
  /\ nIngest = 0
  /\ arrived = [b \in BufferNames |-> <<>>]
  /\ heldLimit = [b \in BufferNames |-> DefaultLogLimit]

\* ------------------------------------------------------------------------
\* POST /extension-log
\* ------------------------------------------------------------------------
\* variant: the settings of the request are ignored
MergeSettings_keep(cur, s) == cur

\* { ...currentSettings, ...settings }
MergeSettings(cur, s) ==
  [k \in (DOMAIN cur) \cup (DOMAIN s) |-> IF k \in DOMAIN s THEN s[k] ELSE cur[k]]

\* variant: nothing is removed on overflow
PushBounded_grow(buf, data, logLimit) == Append(buf, data)

\* variant: the buffer is trimmed to logLimit on every append
PushBounded_trim(buf, data, logLimit) ==
  LET pushed == Append(buf, data)
  IN IF Len(pushed) > logLimit
     THEN SubSeq(pushed, Len(pushed) - logLimit + 1, Len(pushed))
     ELSE pushed

\* variant: the newest record is the one removed on overflow
PushBounded_pop(buf, data, logLimit) ==
  LET pushed == Append(buf, data)
  IN IF Len(pushed) > logLimit THEN SubSeq(pushed, 1, Len(pushed) - 1) ELSE pushed

\* buf.push(data); if (buf.length > logLimit) buf.shift();
PushBounded(buf, data, logLimit) ==
  LET pushed == Append(buf, data)
  IN IF Len(pushed) > logLimit THEN Tail(pushed) ELSE pushed

\* variant: only 5xx responses count as network errors
TargetBuffer_5xx(data) ==
  IF data.type = "console-log" THEN "consoleLogs"
  ELSE IF data.type = "console-error" THEN "consoleErrors"
  ELSE IF data.type = "network-request"
       THEN (IF data.status >= 500 THEN "networkErrors" ELSE "networkSuccess")
  ELSE "none"

\* the buffer the switch on data.type appends to, or "none"
TargetBuffer(data) ==
  IF data.type = "console-log" THEN "consoleLogs"
  ELSE IF data.type = "console-error" THEN "consoleErrors"
  ELSE IF data.type = "network-request"
       THEN (IF data.status >= 400 THEN "networkErrors" ELSE "networkSuccess")
  ELSE "none"

BufferOf(name) ==
  IF name = "consoleLogs" THEN consoleLogs
  ELSE IF name = "consoleErrors" THEN consoleErrors
  ELSE IF name = "networkErrors" THEN networkErrors
  ELSE networkSuccess

\* bookkeeping of arrived / heldLimit for one handler run: target is the
\* buffer appended to ("none" if none), after maps each buffer to its new value
Observe(target, data, newSettings, after) ==
  LET entry == [log |-> data, settings |-> newSettings]
      newLimit == newSettings.logLimit
  IN /\ arrived' = [b \in BufferNames |->
           IF after[b] = <<>> THEN <<>>
           ELSE IF b = target
                THEN (IF BufferOf(b) = <<>> THEN <<entry>> ELSE Append(arrived[b], entry))
           ELSE arrived[b]]
     /\ heldLimit' = [b \in BufferNames |->
           IF after[b] = <<>> \/ (b = target /\ BufferOf(b) = <<>>) THEN newLimit
           ELSE IF heldLimit[b] = newLimit THEN heldLimit[b]
           ELSE -1]

\* variant: a body without data is acknowledged like any other
ExtensionLog_ack(body) ==
  /\ nIngest < MaxIngest
  /\ nIngest' = nIngest + 1
  /\ LET newSettings == IF "settings" \in DOMAIN body
                        THEN MergeSettings(currentSettings, body.settings)
                        ELSE currentSettings
         limit == newSettings.logLimit
     IN /\ currentSettings' = newSettings
        /\ IF "data" \notin DOMAIN body
           THEN /\ lastOp' = [op |-> "extension-log", status |-> 200, result |-> <<>>]
                /\ UNCHANGED <<consoleLogs, consoleErrors, networkErrors,
                               networkSuccess, selectedElement>>
                /\ Observe("none", body, newSettings,
                           [b \in BufferNames |-> BufferOf(b)])
           ELSE LET data == body.data
                    target == TargetBuffer(data)
                    after == [b \in BufferNames |->
                                IF b = target THEN PushBounded(BufferOf(b), data, limit)
                                ELSE BufferOf(b)]
                IN /\ consoleLogs' = after["consoleLogs"]
                   /\ consoleErrors' = after["consoleErrors"]
                   /\ networkErrors' = after["networkErrors"]
                   /\ networkSuccess' = after["networkSuccess"]
                   /\ selectedElement' = IF data.type = "selected-element"
                                         THEN data.element ELSE selectedElement
                   /\ lastOp' = [op |-> "extension-log", status |-> 200, result |-> <<>>]
                   /\ Observe(target, data, newSettings, after)
  /\ UNCHANGED <<allXhr, shotVars, discVars, normVars, callVars, portVars, agentVars>>

\* variant: the data check comes before the settings update
ExtensionLog_dataFirst(body) ==
  /\ nIngest < MaxIngest
  /\ nIngest' = nIngest + 1
  /\ LET newSettings == IF "settings" \in DOMAIN body /\ "data" \in DOMAIN body
                        THEN MergeSettings(currentSettings, body.settings)
                        ELSE currentSettings
         limit == newSettings.logLimit
     IN /\ currentSettings' = newSettings
        /\ IF "data" \notin DOMAIN body
           THEN /\ lastOp' = [op |-> "extension-log", status |-> 400, result |-> <<>>]
                /\ UNCHANGED <<consoleLogs, consoleErrors, networkErrors,
                               networkSuccess, selectedElement>>
                /\ Observe("none", body, newSettings,
                           [b \in BufferNames |-> BufferOf(b)])
           ELSE LET data == body.data
                    target == TargetBuffer(data)
                    after == [b \in BufferNames |->
                                IF b = target THEN PushBounded(BufferOf(b), data, limit)
                                ELSE BufferOf(b)]
                IN /\ consoleLogs' = after["consoleLogs"]
                   /\ consoleErrors' = after["consoleErrors"]
                   /\ networkErrors' = after["networkErrors"]
                   /\ networkSuccess' = after["networkSuccess"]
                   /\ selectedElement' = IF data.type = "selected-element"
                                         THEN data.element ELSE selectedElement
                   /\ lastOp' = [op |-> "extension-log", status |-> 200, result |-> <<>>]
                   /\ Observe(target, data, newSettings, after)
  /\ UNCHANGED <<allXhr, shotVars, discVars, normVars, callVars, portVars, agentVars>>

ExtensionLog(body) ==
  /\ nIngest < MaxIngest
  /\ nIngest' = nIngest + 1
  /\ LET newSettings == IF "settings" \in DOMAIN body
                        THEN MergeSettings(currentSettings, body.settings)
                        ELSE currentSettings
         limit == newSettings.logLimit
     IN /\ currentSettings' = newSettings
        /\ IF "data" \notin DOMAIN body
           THEN /\ lastOp' = [op |-> "extension-log", status |-> 400, result |-> <<>>]
                /\ UNCHANGED <<consoleLogs, consoleErrors, networkErrors,
                               networkSuccess, selectedElement>>
                /\ Observe("none", body, newSettings,
                           [b \in BufferNames |-> BufferOf(b)])
           ELSE LET data == body.data
                    target == TargetBuffer(data)
                    after == [b \in BufferNames |->
                                IF b = target THEN PushBounded(BufferOf(b), data, limit)
                                ELSE BufferOf(b)]
                IN /\ consoleLogs' = after["consoleLogs"]
                   /\ consoleErrors' = after["consoleErrors"]
                   /\ networkErrors' = after["networkErrors"]
                   /\ networkSuccess' = after["networkSuccess"]
                   /\ selectedElement' = IF data.type = "selected-element"
                                         THEN data.element ELSE selectedElement
                   /\ lastOp' = [op |-> "extension-log", status |-> 200, result |-> <<>>]
                   /\ Observe(target, data, newSettings, after)
  /\ UNCHANGED <<allXhr, shotVars, discVars, normVars, callVars, portVars, agentVars>>

\* ------------------------------------------------------------------------
\* GET endpoints
\* ------------------------------------------------------------------------
Respond(op, result) ==
  /\ lastOp' = [op |-> op, status |-> 200, result |-> result]
  /\ UNCHANGED <<consoleLogs, consoleErrors, networkErrors, networkSuccess, allXhr,
                 currentSettings, selectedElement, nIngest, arrived, heldLimit,
                 shotVars, discVars, normVars, callVars, portVars, agentVars>>

GetConsoleLogs == Respond("console-logs", QueryConsoleLogs)
GetConsoleErrors == Respond("console-errors", QueryConsoleErrors)
\* variant: the hidden header fields are deleted from the stored entries
GetNetworkErrors_inPlace ==
  /\ lastOp' = [op |-> "network-errors", status |-> 200, result |-> QueryNetworkErrors]
  /\ networkErrors' = processLogsWithSettings(networkErrors, currentSettings)
  /\ UNCHANGED <<consoleLogs, consoleErrors, networkSuccess, allXhr,
                 currentSettings, selectedElement, nIngest, arrived, heldLimit,
                 shotVars, discVars, normVars, callVars, portVars, agentVars>>

GetNetworkErrors == Respond("network-errors", QueryNetworkErrors)
GetNetworkSuccess == Respond("network-success", QueryNetworkSuccess)
GetAllXhr == Respond("all-xhr", QueryAllXhr)
GetSelectedElement == Respond("selected-element", <<QuerySelectedElement>>)

\* the getNetworkLogs tool of the MCP server: it fetches /network-success from
\* the discovered server and returns the body as its text
GetNetworkLogsTool == Respond("getNetworkLogs", QueryNetworkSuccess)

\* ------------------------------------------------------------------------
\* POST /selected-element and POST /wipelogs
\* ------------------------------------------------------------------------
PostSelectedElement(data) ==
  /\ selectedElement' = data
  /\ lastOp' = [op |-> "post-selected-element", status |-> 200, result |-> <<>>]
  /\ UNCHANGED <<consoleLogs, consoleErrors, networkErrors, networkSuccess, allXhr,
                 currentSettings, nIngest, arrived, heldLimit, shotVars, discVars, normVars, callVars, portVars, agentVars>>

\* variant: the selected element survives the wipe
clearAllLogs_keepElement ==
  /\ consoleLogs' = <<>>
  /\ consoleErrors' = <<>>
  /\ networkErrors' = <<>>
  /\ networkSuccess' = <<>>
  /\ allXhr' = <<>>
  /\ UNCHANGED selectedElement

clearAllLogs ==
  /\ consoleLogs' = <<>>
  /\ consoleErrors' = <<>>
  /\ networkErrors' = <<>>
  /\ networkSuccess' = <<>>
  /\ allXhr' = <<>>
  /\ selectedElement' = Null

Wipelogs ==
  /\ clearAllLogs
  /\ lastOp' = [op |-> "wipelogs", status |-> 200, result |-> <<>>,
                 cleared |-> Len(consoleLogs) + Len(consoleErrors)
                             + Len(networkErrors) + Len(networkSuccess)
                             + (IF selectedElement = Null THEN 0 ELSE 1)]
  /\ arrived' = [b \in BufferNames |-> <<>>]
  /\ heldLimit' = [b \in BufferNames |-> currentSettings.logLimit]
  /\ UNCHANGED <<currentSettings, nIngest, shotVars, discVars, normVars, callVars, portVars, agentVars>>

\* ------------------------------------------------------------------------
\* Screenshot correlator: BrowserConnector
\* ------------------------------------------------------------------------
Reqs == 1..MaxReqs
Socks == 1..MaxSockets

InitShot ==
  /\ activeConnection = 0
  /\ sockets = [s \in Socks |-> "new"]
  /\ screenshotCallbacks = <<>>
  /\ now = 0
  /\ nReq = 0
  /\ reqId = [r \in Reqs |-> ""]
  /\ promise = [r \in Reqs |-> "none"]
  /\ timer = [r \in Reqs |-> "none"]
  /\ due = [r \in Reqs |-> 0]
  /\ http = [r \in Reqs |-> <<>>]
  /\ msgSeen = FALSE
  /\ orphaned = {}

\* --- the Map screenshotCallbacks ---
MapKeys(m) == {m[i].key : i \in 1..Len(m)}
MapHas(m, k) == k \in MapKeys(m)
\* Map.set: a new key goes last, an existing key keeps its place
MapSet(m, k, r) ==
  IF MapHas(m, k)
  THEN [i \in 1..Len(m) |-> IF m[i].key = k THEN [key |-> k, req |-> r] ELSE m[i]]
  ELSE Append(m, [key |-> k, req |-> r])
MapDelete(m, k) == SelectSeq(m, LAMBDA e : e.key # k)

\* --- the response captureScreenshot sends once its promise is settled ---
\* fsOk: whether mkdirSync / writeFileSync succeed
ResponseFor(how, fsOk) ==
  IF how = "data"
  THEN (IF fsOk THEN [status |-> 200, error |-> ""]
        ELSE [status |-> 500, error |-> "filesystem"])
  ELSE IF how = "error"
  THEN [status |-> 500, error |-> "agent"]
  ELSE [status |-> 500,
        error |-> "Screenshot capture timed out - no response from Chrome extension"]

\* variant: a continuation that runs on every call of resolve / reject
SettleWith_again(p, h, r, how, fsOk) ==
  [promise |-> [p EXCEPT ![r] = how],
   http |-> [h EXCEPT ![r] = Append(@, ResponseFor(how, fsOk))]]

\* resolve / reject of request r's promise: only the first call settles it,
\* and the awaiting captureScreenshot then sends its one response
SettleWith(p, h, r, how, fsOk) ==
  IF p[r] = "pending"
  THEN [promise |-> [p EXCEPT ![r] = how],
        http |-> [h EXCEPT ![r] = Append(@, ResponseFor(how, fsOk))]]
  ELSE [promise |-> p, http |-> h]

\* --- wss.on("connection") ---
Connection(s) ==
  /\ sockets[s] = "new"
  /\ \A t \in 1..(s - 1) : sockets[t] # "new"
  /\ sockets' = [sockets EXCEPT ![s] = "open"]
  /\ activeConnection' = s
  /\ UNCHANGED <<screenshotCallbacks, now, nReq, reqId, promise, timer, due,
                 http, msgSeen, orphaned, logVars, discVars, normVars, callVars, portVars, agentVars>>

\* --- ws.on("close") ---
\* variant: any close clears the reference
Close_any(s) ==
  /\ sockets[s] = "open"
  /\ sockets' = [sockets EXCEPT ![s] = "closed"]
  /\ activeConnection' = 0
  /\ orphaned' = IF activeConnection = s
                 THEN orphaned \cup {r \in Reqs : promise[r] = "pending"}
                 ELSE orphaned
  /\ UNCHANGED <<screenshotCallbacks, now, nReq, reqId, promise, timer, due,
                 http, msgSeen, logVars, discVars, normVars, callVars, portVars, agentVars>>

Close(s) ==
  /\ sockets[s] = "open"
  /\ sockets' = [sockets EXCEPT ![s] = "closed"]
  /\ activeConnection' = IF activeConnection = s THEN 0 ELSE activeConnection
  /\ orphaned' = IF activeConnection = s
                 THEN orphaned \cup {r \in Reqs : promise[r] = "pending"}
                 ELSE orphaned
  /\ UNCHANGED <<screenshotCallbacks, now, nReq, reqId, promise, timer, due,
                 http, msgSeen, logVars, discVars, normVars, callVars, portVars, agentVars>>

\* --- POST /capture-screenshot: captureScreenshot up to its await ---
\* variant: the callback is registered before the connection is looked at
CaptureScreenshot_eager ==
  /\ nReq < MaxReqs
  /\ nReq' = nReq + 1
  /\ LET r == nReq + 1
         requestId == ToString(now)
     IN /\ reqId' = [reqId EXCEPT ![r] = requestId]
        /\ screenshotCallbacks' = MapSet(screenshotCallbacks, requestId, r)
        /\ timer' = [timer EXCEPT ![r] = "armed"]
        /\ due' = [due EXCEPT ![r] = now + ScreenshotTimeout]
        /\ IF activeConnection = 0
           THEN /\ http' = [http EXCEPT ![r] =
                     <<[status |-> 503, error |-> "Chrome extension not connected"]>>]
                /\ UNCHANGED promise
           ELSE /\ promise' = [promise EXCEPT ![r] = "pending"]
                /\ UNCHANGED http
  /\ UNCHANGED <<activeConnection, sockets, now, msgSeen, orphaned, logVars, discVars, normVars, callVars, portVars, agentVars>>

CaptureScreenshot ==
  /\ nReq < MaxReqs
  /\ nReq' = nReq + 1
  /\ LET r == nReq + 1
         requestId == ToString(now)
     IN /\ IF activeConnection = 0
           THEN /\ http' = [http EXCEPT ![r] =
                     <<[status |-> 503, error |-> "Chrome extension not connected"]>>]
                /\ UNCHANGED <<screenshotCallbacks, reqId, promise, timer, due>>
           ELSE /\ reqId' = [reqId EXCEPT ![r] = requestId]
                /\ promise' = [promise EXCEPT ![r] = "pending"]
                /\ screenshotCallbacks' = MapSet(screenshotCallbacks, requestId, r)
                /\ timer' = [timer EXCEPT ![r] = "armed"]
                /\ due' = [due EXCEPT ![r] = now + ScreenshotTimeout]
                /\ UNCHANGED http
  /\ UNCHANGED <<activeConnection, sockets, now, msgSeen, orphaned, logVars, discVars, normVars, callVars, portVars, agentVars>>

\* --- the messages a socket can deliver ---
\* replyTo: the request whose take-screenshot the extension is answering
\* (it echoes that requestId), or 0 for a message that answers none
Messages ==
  [type : {"screenshot-data"}, hasData : BOOLEAN, replyTo : 0..MaxReqs]
  \cup [type : {"screenshot-error"}, hasData : {FALSE}, replyTo : 0..MaxReqs]
  \cup [type : {"other"}, hasData : {FALSE}, replyTo : {0}]

\* request r's take-screenshot command has been sent to the extension
Sent(r) == promise[r] # "none"

\* what the handler makes of message m
Handling(m) ==
  IF m.type = "screenshot-data" /\ m.hasData THEN "data"
  ELSE IF m.type = "screenshot-error" THEN "error"
  ELSE "unhandled"

\* --- ws.on("message") ---
\* variant: a screenshot-error resolves the callback like a screenshot
OnMessage_resolve(s, m, fsOk) ==
  /\ sockets[s] = "open"
  /\ m.replyTo # 0 => Sent(m.replyTo)
  /\ ~fsOk => Handling(m) = "data" /\ Len(screenshotCallbacks) > 0
  /\ msgSeen' = (msgSeen \/ m.type # "other")
  /\ LET how == Handling(m)
     IN IF how # "unhandled" /\ Len(screenshotCallbacks) > 0
        THEN LET callback == screenshotCallbacks[1]
                 after == SettleWith(promise, http, callback.req, "data", fsOk)
             IN /\ promise' = after.promise
                /\ http' = after.http
                /\ screenshotCallbacks' = <<>>
        ELSE UNCHANGED <<promise, http, screenshotCallbacks>>
  /\ orphaned' = {r \in orphaned : promise'[r] = "pending"}
  /\ UNCHANGED <<activeConnection, sockets, now, nReq, reqId, timer, due,
                 logVars, discVars, normVars, callVars, portVars, agentVars>>

OnMessage(s, m, fsOk) ==
  /\ sockets[s] = "open"
  /\ m.replyTo # 0 => Sent(m.replyTo)
  /\ ~fsOk => Handling(m) = "data" /\ Len(screenshotCallbacks) > 0
  /\ msgSeen' = (msgSeen \/ m.type # "other")
  /\ LET how == Handling(m)
     IN IF how # "unhandled" /\ Len(screenshotCallbacks) > 0
        THEN LET callback == screenshotCallbacks[1]
                 after == SettleWith(promise, http, callback.req, how, fsOk)
             IN /\ promise' = after.promise
                /\ http' = after.http
                /\ screenshotCallbacks' = <<>>
        ELSE UNCHANGED <<promise, http, screenshotCallbacks>>
  /\ orphaned' = {r \in orphaned : promise'[r] = "pending"}
  /\ UNCHANGED <<activeConnection, sockets, now, nReq, reqId, timer, due,
                 logVars, discVars, normVars, callVars, portVars, agentVars>>

\* --- the setTimeout callback of request r ---
TimerFires(r) ==
  /\ timer[r] = "armed"
  /\ now >= due[r]
  /\ timer' = [timer EXCEPT ![r] = "fired"]
  /\ IF MapHas(screenshotCallbacks, reqId[r])
     THEN LET after == SettleWith(promise, http, r, "timeout", TRUE)
          IN /\ screenshotCallbacks' = MapDelete(screenshotCallbacks, reqId[r])
             /\ promise' = after.promise
             /\ http' = after.http
     ELSE UNCHANGED <<screenshotCallbacks, promise, http>>
  /\ orphaned' = {q \in orphaned : promise'[q] = "pending"}
  /\ UNCHANGED <<activeConnection, sockets, now, nReq, reqId, due,
                 msgSeen, logVars, discVars, normVars, callVars, portVars, agentVars>>

\* --- time passes: by 1 ms, or by one timeout; the clock is explored within
\* MaxSkew ms after 0 and after one timeout ---
Tick(d) ==
  /\ now + d <= ScreenshotTimeout + MaxSkew
  /\ (now + d) % ScreenshotTimeout <= MaxSkew
  /\ now' = now + d
  /\ UNCHANGED <<activeConnection, sockets, screenshotCallbacks, nReq, reqId,
                 promise, timer, due, http, msgSeen, orphaned,
                 logVars, discVars, normVars, callVars, portVars, agentVars>>

\* ------------------------------------------------------------------------
\* Server discovery: discoverServer of mcp-server.ts
\* ------------------------------------------------------------------------
Signature == "mcp-browser-connector-24x7"
DefaultHost == "127.0.0.1"

\* what BROWSER_TOOLS_HOST / BROWSER_TOOLS_PORT (or the .port file) make of
\* getDefaultServerHost() and getDefaultServerPort()
EnvHosts == {DefaultHost, "192.168.1.5"}
EnvPorts == {DefaultPort, 4000}

InitDiscover ==
  /\ discoveredHost = DefaultHost
  /\ discoveredPort = DefaultPort
  /\ serverDiscovered = FALSE
  /\ envHost = DefaultHost
  /\ envPort = DefaultPort
  /\ scan = 0
  /\ atCall = <<DefaultHost, DefaultPort, FALSE>>
  /\ returned = "none"
  /\ nDiscover = 0

\* const hosts = [getDefaultServerHost(), "127.0.0.1", "localhost"]
Hosts(h) == <<h, "127.0.0.1", "localhost">>

\* the fallback ports from p on, the default port left out
RECURSIVE FallbackPorts(_, _)
FallbackPorts(p, defaultPort) ==
  IF p > LastPort THEN <<>>
  ELSE (IF p # defaultPort THEN <<p>> ELSE <<>>) \o FallbackPorts(p + 1, defaultPort)

\* const ports = [defaultPort]; then every other port of the fallback range
Ports(defaultPort) == <<defaultPort>> \o FallbackPorts(FirstPort, defaultPort)

\* the endpoints in the order the two nested loops fetch them
Candidates(h, p) ==
  LET hosts == Hosts(h)
      ports == Ports(p)
  IN [i \in 1..(Len(hosts) * Len(ports)) |->
        [host |-> hosts[((i - 1) \div Len(ports)) + 1],
         port |-> ports[((i - 1) % Len(ports)) + 1]]]

\* what fetching /.identity of an endpoint can give: fetch throws (refused,
\* timed out), or a response that is ok or not, whose body parses as JSON or
\* not, with a signature field ("<undefined>": the body has none)
NoSignature == "<undefined>"
Responses ==
  {[thrown |-> TRUE, ok |-> FALSE, parses |-> FALSE, signature |-> NoSignature]}
  \cup [thrown : {FALSE}, ok : BOOLEAN, parses : {FALSE}, signature : {NoSignature}]
  \cup [thrown : {FALSE}, ok : BOOLEAN, parses : {TRUE},
        signature : {Signature, "MCP-Browser-Connector-24x7", NoSignature}]

\* variant: any endpoint that answers ok with JSON is taken
Accepts_anyOk(resp) == ~resp.thrown /\ resp.ok /\ resp.parses

\* response.ok, response.json() does not throw, identity.signature === ...
Accepts(resp) ==
  /\ ~resp.thrown
  /\ resp.ok
  /\ resp.parses
  /\ resp.signature = Signature

\* --- a call of discoverServer, up to its first fetch ---
BeginDiscovery(h, p, discovered) ==
  /\ scan = 0
  /\ nDiscover < MaxDiscover
  /\ nDiscover' = nDiscover + 1
  /\ envHost' = h
  /\ envPort' = p
  /\ scan' = 1
  /\ serverDiscovered' = discovered
  /\ atCall' = <<discoveredHost, discoveredPort, discovered>>
  /\ returned' = "running"
  /\ UNCHANGED <<discoveredHost, discoveredPort, logVars, shotVars, normVars,
                 portVars, agentVars>>

\* --- discoverServer called at startup, or by withServerConnection while no
\* server is discovered ---
StartDiscovery(h, p) ==
  /\ ~serverDiscovered
  /\ BeginDiscovery(h, p, serverDiscovered)
  /\ UNCHANGED callVars

\* --- withServerConnection: the API call threw; serverDiscovered is reset
\* and discoverServer is called again ---
ApiCallFailed(h, p) ==
  /\ serverDiscovered
  /\ BeginDiscovery(h, p, FALSE)
  /\ UNCHANGED callVars

\* --- one turn of the inner loop: the fetch of the current candidate has
\* settled with resp; after the last candidate the call returns false ---
Probe(resp) ==
  /\ scan >= 1
  /\ LET cands == Candidates(envHost, envPort)
         cand == cands[scan]
     IN IF Accepts(resp)
        THEN /\ discoveredHost' = cand.host
             /\ discoveredPort' = cand.port
             /\ serverDiscovered' = TRUE
             /\ returned' = "true"
             /\ scan' = 0
        ELSE /\ UNCHANGED <<discoveredHost, discoveredPort, serverDiscovered>>
             /\ IF scan = Len(cands)
                THEN returned' = "false" /\ scan' = 0
                ELSE returned' = returned /\ scan' = scan + 1
  /\ UNCHANGED <<envHost, envPort, atCall, nDiscover, logVars, shotVars, normVars, callVars, portVars, agentVars>>

\* ------------------------------------------------------------------------
\* Payload normalizer: truncateStringsInData, processArrayWithSizeLimit
\* ------------------------------------------------------------------------
\* JSON values, tagged with their JavaScript type
Str(s) == [t |-> "string", s |-> s]
Num(n) == [t |-> "number", n |-> n]
JsNull == [t |-> "null"]
Arr(items) == [t |-> "array", items |-> items]
\* entries: the [key, value] pairs of Object.entries, in key order
Obj(entries) == [t |-> "object", entries |-> entries]
\* value wrapped in `levels` containers that hold nothing else: arrays [x]
\* when kind is "array", objects {k: x} when kind is "object" (levels >= 1)
Nested(kind, levels, value) ==
  [t |-> "nested", kind |-> kind, levels |-> levels, inner |-> value]
\* a container whose only member is itself:
\* const a = []; a.push(a)  /  const o = {}; o.k = o
Cyclic(kind) == [t |-> "cyclic", kind |-> kind]

\* what is left of a nested or cyclic value k >= 1 levels down
Peel(data, k) ==
  IF data.t = "cyclic" THEN data
  ELSE IF k = data.levels THEN data.inner
  ELSE Nested(data.kind, data.levels - k, data.inner)

\* what truncateStringsInData appends to a string it cuts
TruncationMarker == "... (truncated)"
MaxDepthExceeded == "[MAX_DEPTH_EXCEEDED]"

\* variant: the depth guard fires one level early
DepthExceeded_early(depth) == depth >= MaxDepth

\* the guard at the head of truncateStringsInData (devtools.js)
DepthExceeded(depth) == depth > MaxDepth

\* The calls made for the containers of a nested or cyclic value run at depth,
\* depth + 1, ...; each one that passes the guard maps its single member
\* through the next call.  Entered is the number of those calls that pass the
\* guard before the value inside is reached.
Entered(data, depth) ==
  Cardinality({i \in 0..MaxDepth + 1 :
                 /\ data.t = "nested" => i < data.levels
                 /\ ~DepthExceeded(depth + i)})

\* variant: the last maxLength characters are kept
RECURSIVE truncateStringsInData_tail(_, _, _)
truncateStringsInData_tail(data, maxLength, depth) ==
  CASE DepthExceeded(depth) -> Str(MaxDepthExceeded)
    [] ~DepthExceeded(depth) /\ data.t = "string" ->
         IF Len(data.s) > maxLength
         THEN Str(SubSeq(data.s, Len(data.s) - maxLength + 1, Len(data.s)) \o TruncationMarker)
         ELSE data
    [] ~DepthExceeded(depth) /\ data.t = "array" ->
         Arr([i \in 1..Len(data.items) |->
               truncateStringsInData_tail(data.items[i], maxLength, depth + 1)])
    [] ~DepthExceeded(depth) /\ data.t = "object" ->
         Obj([i \in 1..Len(data.entries) |->
               [key |-> data.entries[i].key,
                value |-> truncateStringsInData_tail(data.entries[i].value, maxLength, depth + 1)]])
    [] ~DepthExceeded(depth) /\ data.t \in {"nested", "cyclic"} ->
         LET k == Entered(data, depth)
         IN Nested(data.kind, k, truncateStringsInData_tail(Peel(data, k), maxLength, depth + k))
    [] OTHER -> data

\* variant: a string of exactly maxLength characters is cut too
RECURSIVE truncateStringsInData_atLimit(_, _, _)
truncateStringsInData_atLimit(data, maxLength, depth) ==
  CASE DepthExceeded(depth) -> Str(MaxDepthExceeded)
    [] ~DepthExceeded(depth) /\ data.t = "string" ->
         IF Len(data.s) >= maxLength
         THEN Str(SubSeq(data.s, 1, maxLength) \o TruncationMarker)
         ELSE data
    [] ~DepthExceeded(depth) /\ data.t = "array" ->
         Arr([i \in 1..Len(data.items) |->
               truncateStringsInData_atLimit(data.items[i], maxLength, depth + 1)])
    [] ~DepthExceeded(depth) /\ data.t = "object" ->
         Obj([i \in 1..Len(data.entries) |->
               [key |-> data.entries[i].key,
                value |-> truncateStringsInData_atLimit(data.entries[i].value, maxLength, depth + 1)]])
    [] ~DepthExceeded(depth) /\ data.t \in {"nested", "cyclic"} ->
         LET k == Entered(data, depth)
         IN Nested(data.kind, k, truncateStringsInData_atLimit(Peel(data, k), maxLength, depth + k))
    [] OTHER -> data

\* truncateStringsInData of devtools.js (the path argument only feeds the log)
RECURSIVE truncateStringsInData(_, _, _)
truncateStringsInData(data, maxLength, depth) ==
  CASE DepthExceeded(depth) -> Str(MaxDepthExceeded)
    [] ~DepthExceeded(depth) /\ data.t = "string" ->
         IF Len(data.s) > maxLength
         THEN Str(SubSeq(data.s, 1, maxLength) \o TruncationMarker)
         ELSE data
    [] ~DepthExceeded(depth) /\ data.t = "array" ->
         Arr([i \in 1..Len(data.items) |->
               truncateStringsInData(data.items[i], maxLength, depth + 1)])
    [] ~DepthExceeded(depth) /\ data.t = "object" ->
         Obj([i \in 1..Len(data.entries) |->
               [key |-> data.entries[i].key,
                value |-> truncateStringsInData(data.entries[i].value, maxLength, depth + 1)]])
    [] ~DepthExceeded(depth) /\ data.t \in {"nested", "cyclic"} ->
         LET k == Entered(data, depth)
         IN Nested(data.kind, k, truncateStringsInData(Peel(data, k), maxLength, depth + k))
    [] OTHER -> data

\* truncateStringsInData of browser-connector.ts: no depth guard
RECURSIVE serverTruncateStringsInData(_, _)
serverTruncateStringsInData(data, maxLength) ==
  CASE data.t = "string" ->
         IF Len(data.s) > maxLength
         THEN Str(SubSeq(data.s, 1, maxLength) \o TruncationMarker)
         ELSE data
    [] data.t = "array" ->
         Arr([i \in 1..Len(data.items) |->
               serverTruncateStringsInData(data.items[i], maxLength)])
    [] data.t = "object" ->
         Obj([i \in 1..Len(data.entries) |->
               [key |-> data.entries[i].key,
                value |-> serverTruncateStringsInData(data.entries[i].value, maxLength)]])
    [] data.t = "nested" ->
         Nested(data.kind, data.levels,
                serverTruncateStringsInData(data.inner, maxLength))
    [] OTHER -> data

\* JSON.stringify of a value (the strings explored need no escaping)
RECURSIVE JsonStringify(_)
JsonStringify(v) ==
  IF v.t = "string" THEN Quote(v.s)
  ELSE IF v.t = "number" THEN ToString(v.n)
  ELSE IF v.t = "null" THEN "null"
  ELSE IF v.t = "array"
  THEN "[" \o Join([i \in 1..Len(v.items) |-> JsonStringify(v.items[i])], ",") \o "]"
  ELSE "{" \o Join([i \in 1..Len(v.entries) |->
                      Quote(v.entries[i].key) \o ":"
                        \o JsonStringify(v.entries[i].value)], ",") \o "}"

calculateObjectSize(obj) == Len(JsonStringify(obj))

\* variant: an item that does not fit is skipped and the loop goes on
RECURSIVE ArrayLoop_skip(_, _, _, _, _)
ArrayLoop_skip(processed, i, currentSize, result, maxTotalSize) ==
  IF i > Len(processed) THEN result
  ELSE LET itemSize == calculateObjectSize(processed[i])
       IN IF currentSize + itemSize > maxTotalSize
          THEN ArrayLoop_skip(processed, i + 1, currentSize, result, maxTotalSize)
          ELSE ArrayLoop_skip(processed, i + 1, currentSize + itemSize,
                              Append(result, processed[i]), maxTotalSize)

\* the loop of processArrayWithSizeLimit: processed[i] is processFunc(array[i]),
\* i the next index, currentSize the running total, result the items kept
RECURSIVE ArrayLoop(_, _, _, _, _)
ArrayLoop(processed, i, currentSize, result, maxTotalSize) ==
  IF i > Len(processed) THEN result
  ELSE LET itemSize == calculateObjectSize(processed[i])
       IN IF currentSize + itemSize > maxTotalSize
          THEN result
          ELSE ArrayLoop(processed, i + 1, currentSize + itemSize,
                         Append(result, processed[i]), maxTotalSize)

\* processFunc is given as a function on the items of the array
processArrayWithSizeLimit(array, maxTotalSize, processFunc) ==
  ArrayLoop([i \in 1..Len(array) |-> processFunc[array[i]]], 1, 0, <<>>, maxTotalSize)

\* --- the values explored ---
RECURSIVE StringsOfLen(_)
StringsOfLen(n) ==
  IF n = 0 THEN {""}
  ELSE {s \o c : s \in StringsOfLen(n - 1), c \in {"a", "b"}}

Strings == UNION {StringsOfLen(n) : n \in 0..MaxStringLen}

NestDepths == {1, MaxDepth - 1, MaxDepth, MaxDepth + 1, MaxDepth + 2}

Flat == Obj(<<[key |-> "id", value |-> Num(7)],
              [key |-> "name", value |-> Str("ab")],
              [key |-> "tags", value |-> Arr(<<Str("a"), Str("abb"), JsNull>>)]>>)

TreeValues ==
  {Str(s) : s \in Strings}
  \cup {Num(7), JsNull, Arr(<<>>), Obj(<<>>), Flat}
  \cup {Nested("array", n, Str("ab")) : n \in NestDepths}
  \cup {Nested("object", n, Num(7)) : n \in NestDepths}
  \cup {Nested("array", MaxDepth - 3, Flat),
        Nested("array", MaxDepth - 2, Flat),
        Nested("object", 50, Nested("array", MaxDepth - 50, Arr(<<>>))),
        Nested("object", 50, Nested("array", MaxDepth - 49, Arr(<<>>)))}

CyclicValues == {Cyclic("array"), Cyclic("object")}

Limits == (0..MaxLimit) \cup {DefaultStringSizeLimit}

\* character limits used with processArrayWithSizeLimit: one that cuts the
\* items and the default, which leaves them alone
ArrayLimits == {2, DefaultStringSizeLimit}

ArrayItems == {Str("ab"), Str("abab"), Num(7), Obj(<<[key |-> "k", value |-> Str("abab")]>>)}

RECURSIVE ArraysOfLen(_)
ArraysOfLen(n) ==
  IF n = 0 THEN {<<>>}
  ELSE {Append(a, x) : a \in ArraysOfLen(n - 1), x \in ArrayItems}

Arrays == UNION {ArraysOfLen(n) : n \in 0..MaxArrayLen}

\* size budgets: nothing fits, one short item fits, one uncut long item fits,
\* one cut item fits, maxLogSize
SizeLimits == {0, calculateObjectSize(Str("ab")),
               calculateObjectSize(Str("abab")) + 1,
               calculateObjectSize(Str("ab" \o TruncationMarker)) + 1,
               DefaultMaxLogSize}

InitNorm == norm = [op |-> "none"]

\* --- a call truncateStringsInData(v, maxLength) on the agent or the server ---
Truncate(side, v, maxLength) ==
  /\ side = "server" => v \notin CyclicValues
  /\ norm' = [op |-> "truncate", side |-> side, input |-> v, limit |-> maxLength,
              output |-> IF side = "agent"
                         THEN truncateStringsInData(v, maxLength, 0)
                         ELSE serverTruncateStringsInData(v, maxLength)]
  /\ UNCHANGED <<logVars, shotVars, discVars, callVars, portVars, agentVars>>

\* --- the result of the last call is normalized again with the same limit ---
TruncateAgain ==
  /\ norm.op = "truncate"
  /\ norm' = [op |-> "again", side |-> norm.side, first |-> norm.input,
              input |-> norm.output, limit |-> norm.limit,
              output |-> IF norm.side = "agent"
                         THEN truncateStringsInData(norm.output, norm.limit, 0)
                         ELSE serverTruncateStringsInData(norm.output, norm.limit)]
  /\ UNCHANGED <<logVars, shotVars, discVars, callVars, portVars, agentVars>>

\* --- processJsonString on an array: processArrayWithSizeLimit(parsed,
\* maxLogSize, (item) => truncateStringsInData(item, maxLength, 0, "root")) ---
ProcessArray(array, maxTotalSize, maxLength) ==
  /\ norm' = [op |-> "array", input |-> array, limit |-> maxLength,
              maxTotalSize |-> maxTotalSize,
              output |-> processArrayWithSizeLimit(array, maxTotalSize,
                           [item \in {array[i] : i \in 1..Len(array)} |->
                              truncateStringsInData(item, maxLength, 0)])]
  /\ UNCHANGED <<logVars, shotVars, discVars, callVars, portVars, agentVars>>

\* ------------------------------------------------------------------------
\* withServerConnection of mcp-server.ts
\* ------------------------------------------------------------------------
InitCall ==
  /\ wscPc = "idle"
  /\ apiCalls = 0
  /\ wscResult = "none"
  /\ firstThrew = FALSE

\* the texts of the isError results withServerConnection builds itself (the
\* last two are followed by the message of the error caught)
FailedToDiscover ==
  "Failed to discover browser connector server. Please ensure it's running."
FailedToReconnect == "Failed to reconnect to server: "
ErrorAfterReconnect == "Error after reconnection attempt: "

\* --- a tool handler calls withServerConnection(apiCall): discoverServer is
\* called first when no server is discovered ---
WithServerConnection(h, p) ==
  /\ wscPc \in {"idle", "returned"}
  /\ scan = 0
  /\ apiCalls' = 0
  /\ wscResult' = "none"
  /\ firstThrew' = FALSE
  /\ IF ~serverDiscovered
     THEN /\ BeginDiscovery(h, p, serverDiscovered)
          /\ wscPc' = "discovering"
     ELSE /\ wscPc' = "calling"
          /\ UNCHANGED <<logVars, shotVars, discVars, normVars, portVars, agentVars>>

\* variant: the API call is retried whatever the rediscovery returned
DiscoveryReturned_retryAnyway ==
  /\ wscPc \in {"discovering", "rediscovering"}
  /\ scan = 0
  /\ IF returned = "true" \/ wscPc = "rediscovering"
     THEN /\ wscPc' = IF wscPc = "discovering" THEN "calling" ELSE "retrying"
          /\ wscResult' = wscResult
     ELSE /\ wscPc' = "returned"
          /\ wscResult' = FailedToDiscover
  /\ UNCHANGED <<apiCalls, firstThrew, logVars, shotVars, discVars, normVars,
                 portVars, agentVars>>

\* --- the awaited discoverServer() has returned ---
DiscoveryReturned ==
  /\ wscPc \in {"discovering", "rediscovering"}
  /\ scan = 0
  /\ IF returned = "true"
     THEN /\ wscPc' = IF wscPc = "discovering" THEN "calling" ELSE "retrying"
          /\ wscResult' = wscResult
     ELSE /\ wscPc' = "returned"
          /\ wscResult' = IF wscPc = "discovering" THEN FailedToDiscover
                                                   ELSE FailedToReconnect
  /\ UNCHANGED <<apiCalls, firstThrew, logVars, shotVars, discVars, normVars,
                 portVars, agentVars>>

\* --- try { return await apiCall() }: the call returns, or it throws and the
\* catch block resets serverDiscovered and calls discoverServer again ---
ApiCall(throws, h, p) ==
  /\ wscPc = "calling"
  /\ apiCalls' = apiCalls + 1
  /\ IF throws
     THEN /\ firstThrew' = TRUE
          /\ wscResult' = wscResult
          /\ wscPc' = "rediscovering"
          /\ BeginDiscovery(h, p, FALSE)
     ELSE /\ firstThrew' = firstThrew
          /\ wscResult' = "value"
          /\ wscPc' = "returned"
          /\ UNCHANGED <<logVars, shotVars, discVars, normVars, portVars, agentVars>>

\* --- the retry after a successful rediscovery: its error is caught and
\* turned into an isError result ---
RetryApiCall(throws) ==
  /\ wscPc = "retrying"
  /\ apiCalls' = apiCalls + 1
  /\ wscResult' = IF throws THEN ErrorAfterReconnect ELSE "value"
  /\ wscPc' = "returned"
  /\ UNCHANGED <<firstThrew, logVars, shotVars, discVars, normVars, portVars, agentVars>>

\* ------------------------------------------------------------------------
\* getAvailablePort of browser-connector.ts
\* ------------------------------------------------------------------------
\* what testServer.listen(port) gives: the "listening" event, or an "error"
\* event whose code is EADDRINUSE or another one
ListenOutcomes == {"listening", "EADDRINUSE", "EACCES"}

\* REQUESTED_PORT = parseInt(process.env.PORT || "3025", 10)
StartPorts == {DefaultPort}
\* the ports a call can reach
TestedPorts == DefaultPort..(DefaultPort + MaxAttempts)

InitPort ==
  /\ listenOutcome = [q \in TestedPorts |-> "listening"]
  /\ portArgs = [startPort |-> DefaultPort, maxAttempts |-> 0]
  /\ currentPort = DefaultPort
  /\ attempts = 0
  /\ listened = <<>>
  /\ portResult = "idle"

\* --- getAvailablePort(startPort, maxAttempts) is called; outcome is what the
\* ports of the machine answer to a listen during the call ---
GetAvailablePort(startPort, maxAttempts, outcome) ==
  /\ portResult = "idle"
  /\ listenOutcome' = outcome
  /\ portArgs' = [startPort |-> startPort, maxAttempts |-> maxAttempts]
  /\ currentPort' = startPort
  /\ attempts' = 0
  /\ listened' = <<>>
  /\ portResult' = IF 0 < maxAttempts THEN "running" ELSE "thrown"
  /\ UNCHANGED <<logVars, shotVars, discVars, normVars, callVars, agentVars>>

\* --- one turn of the while loop: the awaited test listen settles. On
\* EADDRINUSE the error handler advances currentPort and attempts and
\* resolves the promise, so the return after the await is reached; on
\* another error the promise rejects and the catch block advances ---
TestListen ==
  /\ portResult = "running"
  /\ listened' = Append(listened, currentPort)
  /\ LET outcome == listenOutcome[currentPort]
     IN CASE outcome = "listening" ->
               /\ portResult' = "returned"
               /\ UNCHANGED <<currentPort, attempts>>
          [] outcome = "EADDRINUSE" ->
               /\ currentPort' = currentPort + 1
               /\ attempts' = attempts + 1
               /\ portResult' = "returned"
          [] OTHER ->
               /\ currentPort' = currentPort + 1
               /\ attempts' = attempts + 1
               /\ portResult' = IF attempts + 1 < portArgs.maxAttempts
                                THEN "running" ELSE "thrown"
  /\ UNCHANGED <<listenOutcome, portArgs, logVars, shotVars, discVars, normVars,
                 callVars, agentVars>>

\* ------------------------------------------------------------------------
\* WebSocket of the capture agent: setupWebSocket of devtools.js
\* ------------------------------------------------------------------------
WS_RECONNECT_DELAY == 5000
AgentIds == 1..MaxAgentSockets

\* number of sockets / timers created so far
Created(states) == Cardinality({i \in AgentIds : states[i] # "none"})

\* devtools.js ends with setupWebSocket(): the first socket is connecting
InitAgent ==
  /\ ws = 1
  /\ wsReconnectTimeout = 0
  /\ agentSockets = [s \in AgentIds |-> IF s = 1 THEN "connecting" ELSE "none"]
  /\ agentTimers = [t \in AgentIds |-> "none"]
  /\ agentDue = [t \in AgentIds |-> 0]
  /\ agentNow = 0
  /\ agentOpened = {}

\* --- ws.onopen of socket s ---
WsOpen(s) ==
  /\ agentSockets[s] = "connecting"
  /\ agentSockets' = [agentSockets EXCEPT ![s] = "open"]
  /\ agentOpened' = agentOpened \cup {s}
  /\ IF wsReconnectTimeout # 0
     THEN /\ agentTimers' = [agentTimers EXCEPT ![wsReconnectTimeout] =
                               IF @ = "armed" THEN "cleared" ELSE @]
          /\ wsReconnectTimeout' = 0
     ELSE UNCHANGED <<agentTimers, wsReconnectTimeout>>
  /\ UNCHANGED <<ws, agentDue, agentNow,
                 logVars, shotVars, discVars, normVars, callVars, portVars>>

\* variant: only a socket that had been open is reconnected
WsClose_onlyOpened(s) ==
  /\ agentSockets[s] \in {"connecting", "open", "closing"}
  /\ agentSockets' = [agentSockets EXCEPT ![s] = "closed"]
  /\ IF s \in agentOpened
     THEN LET t == Created(agentTimers) + 1
          IN /\ agentTimers' = [agentTimers EXCEPT ![t] = "armed"]
             /\ agentDue' = [agentDue EXCEPT ![t] = agentNow + WS_RECONNECT_DELAY]
             /\ wsReconnectTimeout' = t
     ELSE UNCHANGED <<agentTimers, agentDue, wsReconnectTimeout>>
  /\ UNCHANGED <<ws, agentNow, agentOpened,
                 logVars, shotVars, discVars, normVars, callVars, portVars>>

\* --- ws.onclose of socket s (the connection failed, was lost or was closed):
\* wsReconnectTimeout = setTimeout(setupWebSocket, WS_RECONNECT_DELAY) ---
WsClose(s) ==
  /\ agentSockets[s] \in {"connecting", "open", "closing"}
  /\ agentSockets' = [agentSockets EXCEPT ![s] = "closed"]
  /\ LET t == Created(agentTimers) + 1
     IN /\ agentTimers' = [agentTimers EXCEPT ![t] = "armed"]
        /\ agentDue' = [agentDue EXCEPT ![t] = agentNow + WS_RECONNECT_DELAY]
        /\ wsReconnectTimeout' = t
  /\ UNCHANGED <<ws, agentNow, agentOpened,
                 logVars, shotVars, discVars, normVars, callVars, portVars>>

\* --- timer t fires and runs setupWebSocket: if (ws) ws.close();
\* ws = new WebSocket(...) ---
ReconnectTimerFires(t) ==
  /\ agentTimers[t] = "armed"
  /\ agentNow >= agentDue[t]
  /\ Created(agentSockets) < MaxAgentSockets
  /\ agentTimers' = [agentTimers EXCEPT ![t] = "fired"]
  /\ LET s == Created(agentSockets) + 1
         closing == IF ws # 0 /\ agentSockets[ws] \in {"connecting", "open"}
                    THEN [agentSockets EXCEPT ![ws] = "closing"]
                    ELSE agentSockets
     IN /\ agentSockets' = [closing EXCEPT ![s] = "connecting"]
        /\ ws' = s
  /\ UNCHANGED <<wsReconnectTimeout, agentDue, agentNow, agentOpened,
                 logVars, shotVars, discVars, normVars, callVars, portVars>>

\* --- time passes; an armed timer fires when it is due ---
AgentTick(d) ==
  /\ agentNow + d <= MaxClock * WS_RECONNECT_DELAY
  /\ \A t \in AgentIds : agentTimers[t] = "armed" => agentNow + d <= agentDue[t]
  /\ agentNow' = agentNow + d
  /\ UNCHANGED <<ws, wsReconnectTimeout, agentSockets, agentTimers, agentDue,
                 agentOpened,
                 logVars, shotVars, discVars, normVars, callVars, portVars>>

\* ------------------------------------------------------------------------
\* Specifications
\* ------------------------------------------------------------------------
Init ==
  /\ InitLog /\ InitShot /\ InitDiscover /\ InitNorm
  /\ InitCall /\ InitPort /\ InitAgent

Next ==
  \/ \E body \in Bodies : ExtensionLog(body)
  \/ GetConsoleLogs
  \/ GetConsoleErrors
  \/ GetNetworkErrors
  \/ GetNetworkSuccess
  \/ GetAllXhr
  \/ GetSelectedElement
  \/ GetNetworkLogsTool
  \/ \E data \in {ElementB, Null} : PostSelectedElement(data)
  \/ Wipelogs

Spec == Init /\ [][Next]_vars

NextShot ==
  \/ \E s \in Socks : Connection(s)
  \/ \E s \in Socks : Close(s)
  \/ CaptureScreenshot
  \/ \E s \in Socks, m \in Messages, fsOk \in BOOLEAN : OnMessage(s, m, fsOk)
  \/ \E r \in Reqs : TimerFires(r)
  \/ \E d \in {1, ScreenshotTimeout} : Tick(d)

SpecShot == Init /\ [][NextShot]_vars

NextDiscover ==
  \/ \E h \in EnvHosts, p \in EnvPorts : StartDiscovery(h, p)
  \/ \E h \in EnvHosts, p \in EnvPorts : ApiCallFailed(h, p)
  \/ \E resp \in Responses : Probe(resp)

SpecDiscover == Init /\ [][NextDiscover]_vars

NextNorm ==
  \/ \E side \in {"agent", "server"}, v \in TreeValues \cup CyclicValues,
        maxLength \in Limits : Truncate(side, v, maxLength)
  \/ TruncateAgain
  \/ \E array \in Arrays, maxTotalSize \in SizeLimits, maxLength \in ArrayLimits :
        ProcessArray(array, maxTotalSize, maxLength)

SpecNorm == Init /\ [][NextNorm]_vars

NextCall ==
  \/ \E h \in EnvHosts, p \in EnvPorts : WithServerConnection(h, p)
  \/ \E resp \in Responses : Probe(resp)
  \/ DiscoveryReturned
  \/ \E throws \in BOOLEAN, h \in EnvHosts, p \in EnvPorts : ApiCall(throws, h, p)
  \/ \E throws \in BOOLEAN : RetryApiCall(throws)

SpecCall == Init /\ [][NextCall]_vars

NextPort ==
  \/ \E startPort \in StartPorts, maxAttempts \in 1..MaxAttempts,
        outcome \in [TestedPorts -> ListenOutcomes] :
          GetAvailablePort(startPort, maxAttempts, outcome)
  \/ TestListen

SpecPort == Init /\ [][NextPort]_vars

NextAgent ==
  \/ \E s \in AgentIds : WsOpen(s)
  \/ \E s \in AgentIds : WsClose(s)
  \/ \E t \in AgentIds : ReconnectTimerFires(t)
  \/ \E d \in {1000, WS_RECONNECT_DELAY} : AgentTick(d)

SpecAgent == Init /\ [][NextAgent]_vars

\* ------------------------------------------------------------------------
\* Properties
\* ------------------------------------------------------------------------
LastN(seq, n) == IF Len(seq) <= n THEN seq ELSE SubSeq(seq, Len(seq) - n + 1, Len(seq))
LogsOf(appends) == [i \in 1..Len(appends) |-> appends[i].log]

RECURSIVE SumSizes(_)
SumSizes(logs) ==
  IF Len(logs) = 0 THEN 0 ELSE calculateLogSize(logs[1]) + SumSizes(Tail(logs))

BufferQueries == {"console-logs", "console-errors", "network-errors",
                  "network-success", "all-xhr"}
Settled == {"data", "error", "timeout"}
TimeoutResponse == ResponseFor("timeout", TRUE)

\* C1: while logLimit has stayed at one value N >= 1 since a buffer was last
\* empty, the buffer never holds more than N records and holds exactly the
\* last N records appended to it (all of them while fewer than N), in
\* arrival order.
C1_FifoLastN ==
  \A b \in BufferNames :
    heldLimit[b] >= 1 =>
      /\ Len(BufferOf(b)) <= heldLimit[b]
      /\ BufferOf(b) = LastN(LogsOf(arrived[b]), heldLimit[b])

\* C1 witness: logLimit 2 throughout, three console logs appended, the oldest
\* evicted and the two newest kept in order.
C1_Witness ==
  /\ heldLimit["consoleLogs"] = 2
  /\ Len(arrived["consoleLogs"]) = 3
  /\ consoleLogs = <<arrived["consoleLogs"][2].log, arrived["consoleLogs"][3].log>>
  /\ consoleLogs[1] # consoleLogs[2]
  /\ lastOp.op = "extension-log"

\* C2: every capture request whose take-screenshot command was sent is
\* settled in the end. Each such request has a timer, which always runs, and
\* once its timer has run nothing can settle it any more (its record is not in
\* the map and is never put back), so the request is settled in the end
\* exactly if it is settled by the time its timer has run.
C2_SentRequestSettled ==
  \A r \in Reqs :
    timer[r] = "fired" => promise[r] \in Settled /\ Len(http[r]) = 1

\* C3: when the timer of a request runs and no screenshot-data or
\* screenshot-error message has arrived at all, the request fails with the
\* timeout error in that step and its record is gone from the map.
C3_UnansweredTimesOut ==
  [][\A r \in Reqs :
       (timer[r] = "armed" /\ timer'[r] = "fired" /\ ~msgSeen') =>
         /\ promise'[r] = "timeout"
         /\ http'[r] = <<TimeoutResponse>>
         /\ ~MapHas(screenshotCallbacks', reqId[r])]_vars

\* C4: a capture request made while activeConnection is null is answered 503
\* 'Chrome extension not connected' in the same step; no command is sent, no
\* record is put in the map and no timer is started.
C4_NoConnectionFailsAtOnce ==
  [][(nReq' = nReq + 1 /\ activeConnection = 0) =>
       /\ http'[nReq'] = <<[status |-> 503, error |-> "Chrome extension not connected"]>>
       /\ promise'[nReq'] = "none"
       /\ screenshotCallbacks' = screenshotCallbacks
       /\ timer' = timer
       /\ \A r \in Reqs \ {nReq'} : http'[r] = http[r]]_vars

\* C4 witness: a request answered 503 that has no command sent and no timer.
C4_Witness ==
  \E r \in Reqs :
    /\ http[r] = <<[status |-> 503, error |-> "Chrome extension not connected"]>>
    /\ ~Sent(r)
    /\ timer[r] = "none"

\* C5: no capture request is settled more than once: a settled promise keeps
\* its outcome, the response already sent stays the only one, and no request
\* ever has more than one response.
C5_SettledOnce ==
  [][\A r \in Reqs :
       /\ Len(http'[r]) <= 1
       /\ promise[r] \in Settled => promise'[r] = promise[r] /\ http'[r] = http[r]]_vars

\* C5 witness: request a was resolved by screenshot-data and answered once;
\* its timer ran afterwards and found, under a's requestId, the record of a
\* later request b, removed it and called a's reject.
C5_Witness ==
  \E a, b \in Reqs :
    /\ a # b
    /\ promise[a] = "data" /\ Len(http[a]) = 1 /\ timer[a] = "fired"
    /\ reqId[a] = reqId[b]
    /\ promise[b] = "pending" /\ timer[b] = "armed"
    /\ screenshotCallbacks = <<>>

\* C6: a screenshot response that answers a request which has already timed
\* out settles no capture request.
C6_LateResponseDropped ==
  [][\A s \in Socks, m \in Messages, fsOk \in BOOLEAN :
       (/\ OnMessage(s, m, fsOk)
        /\ Handling(m) # "unhandled"
        /\ m.replyTo # 0
        /\ promise[m.replyTo] = "timeout") =>
         promise' = promise /\ http' = http]_vars

\* C7 as stated: the serialized JSON array a buffer query returns is no
\* longer than queryLimit.
C7_ArrayWithinQueryLimit ==
  lastOp.op \in BufferQueries =>
    Len(StringifyArray(lastOp.result)) <= currentSettings.queryLimit

\* C7 amended: the serialized lengths of the entries a buffer query returns,
\* each entry serialized on its own, sum to at most queryLimit; the
\* serialized array is longer than that sum by its two brackets and the
\* commas between entries.
C7_EntriesWithinQueryLimit ==
  lastOp.op \in BufferQueries =>
    LET n == Len(lastOp.result)
    IN /\ SumSizes(lastOp.result) <= currentSettings.queryLimit
       /\ Len(StringifyArray(lastOp.result))
            = SumSizes(lastOp.result) + 2 + (IF n = 0 THEN 0 ELSE n - 1)

\* C7 witness: a console-logs query that returned some but not all of the
\* buffered records because the budget was reached.
C7_Witness ==
  /\ lastOp.op = "console-logs"
  /\ Len(lastOp.result) >= 1
  /\ Len(lastOp.result) < Len(consoleLogs)

\* the queryLimit values the number of returned entries is compared at
QueryLimitSweep ==
  {TightQueryLimit - 1, TightQueryLimit, 2 * TightQueryLimit,
   calculateLogSize(ConsoleLogB), DefaultQueryLimit}

CountUnder(logs, q) ==
  Len(truncateLogsToQueryLimit(logs, [currentSettings EXCEPT !.queryLimit = q]))

\* the logs the query named op reads
LogsRead(op) ==
  IF op = "console-logs" THEN consoleLogs
  ELSE IF op = "console-errors" THEN consoleErrors
  ELSE IF op = "network-errors" THEN networkErrors
  ELSE IF op = "network-success" THEN networkSuccess
  ELSE SortByTimestamp(networkSuccess \o networkErrors)

\* C8: for the same buffer contents and header-visibility settings, a smaller
\* queryLimit never returns more entries than a larger one: whenever a buffer
\* has been queried, the number of entries the same query returns under each
\* limit of QueryLimitSweep does not decrease as the limit grows.
C8_MonotoneInQueryLimit ==
  lastOp.op \in BufferQueries =>
    LET count == [q \in QueryLimitSweep |-> CountUnder(LogsRead(lastOp.op), q)]
    IN /\ \A q1, q2 \in QueryLimitSweep : q1 <= q2 => count[q1] <= count[q2]
       /\ Len(lastOp.result) = CountUnder(LogsRead(lastOp.op), currentSettings.queryLimit)

\* C8 witness: console logs were queried in a state where the budget decides
\* the answer: no entry under one limit, one under a larger, all three under
\* the default.
C8_Witness ==
  /\ lastOp.op = "console-logs"
  /\ Len(consoleLogs) = 3
  /\ CountUnder(consoleLogs, TightQueryLimit - 1) = 0
  /\ CountUnder(consoleLogs, TightQueryLimit) = 1
  /\ CountUnder(consoleLogs, DefaultQueryLimit) = 3

NetworkQueries == {"network-errors", "network-success", "all-xhr"}

\* C9: header visibility is applied when a query is answered: while
\* showRequestHeaders is false no returned entry carries requestHeaders, and
\* while showResponseHeaders is false none carries responseHeaders, whatever
\* the settings were when the entry was stored.
C9_HeadersHiddenAtQueryTime ==
  lastOp.op \in NetworkQueries =>
    \A i \in 1..Len(lastOp.result) :
      /\ ~currentSettings.showRequestHeaders =>
           "requestHeaders" \notin DOMAIN lastOp.result[i]
      /\ ~currentSettings.showResponseHeaders =>
           "responseHeaders" \notin DOMAIN lastOp.result[i]

\* C9 witness: a network entry with requestHeaders was stored while
\* showRequestHeaders was true, a later ingest set it to false, and a query
\* then returned that entry without its requestHeaders.
C9_Witness ==
  /\ lastOp.op = "network-success"
  /\ ~currentSettings.showRequestHeaders
  /\ Len(networkSuccess) = 1
  /\ Len(arrived["networkSuccess"]) = 1
  /\ arrived["networkSuccess"][1].log = networkSuccess[1]
  /\ arrived["networkSuccess"][1].settings.showRequestHeaders
  /\ "requestHeaders" \in DOMAIN networkSuccess[1]
  /\ Len(lastOp.result) = 1
  /\ "requestHeaders" \notin DOMAIN lastOp.result[1]

\* C10: right after a wipe every buffer query and the merged all-xhr query
\* return an empty array and the selected-element query returns the
\* 'No element selected' placeholder.
C10_WipeClearsEverything ==
  lastOp.op = "wipelogs" =>
    /\ QueryConsoleLogs = <<>>
    /\ QueryConsoleErrors = <<>>
    /\ QueryNetworkErrors = <<>>
    /\ QueryNetworkSuccess = <<>>
    /\ QueryAllXhr = <<>>
    /\ QuerySelectedElement = NoElementSelected

\* C10 witness: a wipe that removed three buffered records and a selected
\* element.
C10_Witness ==
  /\ lastOp.op = "wipelogs"
  /\ lastOp.cleared = 4

\* the buffer the claim says a record of this type (and status) goes to
ClaimedBuffer(data) ==
  IF data.type = "network-request"
  THEN (IF data.status >= 400 THEN "networkErrors" ELSE "networkSuccess")
  ELSE IF data.type = "console-log" THEN "consoleLogs"
  ELSE "consoleErrors"

BufferTypes == {"console-log", "console-error", "network-request"}

\* after is before with data appended (and the oldest record evicted if the
\* append overflowed)
AppendedTo(before, after, data) ==
  /\ after = Append(before, data) \/ after = Tail(Append(before, data))
  /\ Len(after) >= 1
  /\ after[Len(after)] = data

\* C11: an ingest of a network-request record appends it to networkErrors if
\* its status is >= 400 and to networkSuccess otherwise, an ingest of a
\* console-log / console-error record appends it to consoleLogs /
\* consoleErrors; the ingest changes no other buffer and not selectedElement.
C11_RoutedToOneBuffer ==
  [][\A body \in Bodies :
       (/\ ExtensionLog(body)
        /\ "data" \in DOMAIN body
        /\ body.data.type \in BufferTypes) =>
         LET b == ClaimedBuffer(body.data)
         IN /\ AppendedTo(BufferOf(b), BufferOf(b)', body.data)
            /\ \A c \in BufferNames \ {b} : BufferOf(c)' = BufferOf(c)
            /\ selectedElement' = selectedElement]_vars

\* C11 witness: a 404 and a 200 network record were ingested; the first is
\* alone in networkErrors, the second alone in networkSuccess.
C11_Witness ==
  /\ networkErrors = <<NetworkNotFound>>
  /\ networkSuccess = <<NetworkOk>>
  /\ consoleLogs = <<>> /\ consoleErrors = <<>>
  /\ lastOp.op = "extension-log"

\* number of times x occurs in seq
Count(seq, x) == Cardinality({i \in 1..Len(seq) : seq[i] = x})

\* the entries of both network buffers as a query shows them
NetworkEntriesShown ==
  processLogsWithSettings(networkSuccess \o networkErrors, currentSettings)

\* C12: the all-xhr query returns entries in non-decreasing timestamp order;
\* when the entries of networkSuccess and networkErrors fit the byte budget
\* together, it returns each of them exactly as often as the two buffers hold
\* it; and answering it leaves both buffers unchanged.
C12_AllXhrMergedSorted ==
  [][lastOp'.op = "all-xhr" =>
       LET result == lastOp'.result
       IN /\ \A i, j \in 1..Len(result) :
               i < j => result[i].timestamp <= result[j].timestamp
          /\ SumSizes(NetworkEntriesShown) <= currentSettings.queryLimit =>
               /\ Len(result) = Len(networkSuccess) + Len(networkErrors)
               /\ \A k \in 1..Len(NetworkEntriesShown) :
                    Count(result, NetworkEntriesShown[k])
                      = Count(NetworkEntriesShown, NetworkEntriesShown[k])
          /\ networkSuccess' = networkSuccess
          /\ networkErrors' = networkErrors]_vars

\* C12 witness: networkSuccess holds a record of timestamp 2 and networkErrors
\* one of timestamp 1; all-xhr returned both, the one from networkErrors first.
C12_Witness ==
  /\ lastOp.op = "all-xhr"
  /\ networkSuccess = <<NetworkOk>>
  /\ networkErrors = <<NetworkNotFound>>
  /\ Len(lastOp.result) = 2
  /\ lastOp.result[1].status = 404
  /\ lastOp.result[2].status = 200

Max(a, b) == IF a >= b THEN a ELSE b

\* C13 as stated: in every reachable state each of the four buffers holds at
\* most the current logLimit entries.
C13_BuffersWithinLogLimit ==
  \A b \in BufferNames : Len(BufferOf(b)) <= currentSettings.logLimit

\* C13 amended: no step makes a buffer longer than the larger of its previous
\* length and the logLimit in force after the step. So a buffer within
\* logLimit stays within it as long as logLimit is not lowered below its
\* length, and a buffer left above a lowered logLimit is not trimmed and
\* never grows.
C13_NeverGrowsPastLogLimit ==
  [][\A b \in BufferNames :
       Len(BufferOf(b)') <= Max(Len(BufferOf(b)), currentSettings'.logLimit)]_vars

\* C13 witness: two console logs were stored under logLimit 50, then a third
\* arrived with logLimit 1: the buffer was not trimmed to 1, the append
\* evicted one record and the buffer still holds 2.
C13_Witness ==
  /\ currentSettings.logLimit = 1
  /\ Len(arrived["consoleLogs"]) = 3
  /\ arrived["consoleLogs"][2].settings.logLimit = DefaultLogLimit
  /\ Len(consoleLogs) = 2

\* C14: every entry a buffer query returns has its message no longer than
\* stringSizeLimit characters plus the truncation marker, whatever was
\* ingested.
C14_ServedStringsTruncated ==
  lastOp.op \in BufferQueries =>
    \A i \in 1..Len(lastOp.result) :
      "message" \in DOMAIN lastOp.result[i] =>
        Len(lastOp.result[i].message)
          <= currentSettings.stringSizeLimit + Len(TruncationMarker)

\* C15: an ingest whose body has no data is answered 400 and leaves the four
\* buffers and selectedElement as they were.
C15_MissingDataRejected ==
  [][\A body \in Bodies :
       (ExtensionLog(body) /\ "data" \notin DOMAIN body) =>
         /\ lastOp'.op = "extension-log"
         /\ lastOp'.status = 400
         /\ \A b \in BufferNames : BufferOf(b)' = BufferOf(b)
         /\ selectedElement' = selectedElement]_vars

\* C15 witness: an ingest was answered 400 while a console log and a selected
\* element were stored.
C15_Witness ==
  /\ lastOp.op = "extension-log"
  /\ lastOp.status = 400
  /\ Len(consoleLogs) >= 1
  /\ selectedElement # Null

\* the step stored data: appended it to a buffer, or wrote its element to the
\* selected-element slot
Stored(data) ==
  \/ \E b \in BufferNames : AppendedTo(BufferOf(b), BufferOf(b)', data)
  \/ data.type = "selected-element" /\ selectedElement' = data.element

\* C16: every ingest either stores its record and is acknowledged (200), or
\* is answered with an error and changes no buffer; a record that was not
\* stored is never acknowledged.
C16_StoredOrError ==
  [][\A body \in Bodies :
       ExtensionLog(body) =>
         \/ /\ lastOp'.status = 200
            /\ "data" \in DOMAIN body
            /\ Stored(body.data)
         \/ /\ lastOp'.status # 200
            /\ \A b \in BufferNames : BufferOf(b)' = BufferOf(b)]_vars

\* C17: an ingest carrying settings sets every field present in them to the
\* given value and leaves every other settings field unchanged; nothing but
\* such an ingest changes the settings, so the new values stay in force for
\* every later request; and a buffer query is answered under the settings
\* then in force.
C17_SettingsShallowMerge ==
  [][/\ \A body \in Bodies :
          (ExtensionLog(body) /\ "settings" \in DOMAIN body) =>
            /\ DOMAIN currentSettings'
                 = (DOMAIN currentSettings) \cup (DOMAIN body.settings)
            /\ \A k \in DOMAIN body.settings : currentSettings'[k] = body.settings[k]
            /\ \A k \in (DOMAIN currentSettings) \ (DOMAIN body.settings) :
                 currentSettings'[k] = currentSettings[k]
     /\ currentSettings' # currentSettings =>
          \E body \in Bodies : "settings" \in DOMAIN body /\ ExtensionLog(body)
     /\ lastOp'.op \in BufferQueries =>
          /\ SumSizes(lastOp'.result) <= currentSettings.queryLimit
          /\ \A i \in 1..Len(lastOp'.result) :
               /\ ~currentSettings.showRequestHeaders =>
                    "requestHeaders" \notin DOMAIN lastOp'.result[i]
               /\ ~currentSettings.showResponseHeaders =>
                    "responseHeaders" \notin DOMAIN lastOp'.result[i]]_vars

\* C17 witness: one ingest set logLimit to 2, another set queryLimit and left
\* logLimit at 2, every other field still has its default, and a query was
\* answered afterwards.
C17_Witness ==
  /\ currentSettings.logLimit = 2
  /\ currentSettings.queryLimit = TightQueryLimit
  /\ currentSettings.stringSizeLimit = DefaultStringSizeLimit
  /\ ~currentSettings.showRequestHeaders
  /\ lastOp.op \in BufferQueries

SensitiveHeaders == {"cookie", "set-cookie", "authorization"}
HeaderNames(h) == {h[i][1] : i \in 1..Len(h)}

\* the names of the headers entry carries, request and response side
HeadersExposed(entry) ==
  (IF "requestHeaders" \in DOMAIN entry THEN HeaderNames(entry.requestHeaders) ELSE {})
  \cup (IF "responseHeaders" \in DOMAIN entry
        THEN HeaderNames(entry.responseHeaders) ELSE {})

\* C18: no entry a network query returns carries a cookie or another
\* sensitive header, whatever the settings are.
C18_NoSensitiveHeadersServed ==
  lastOp.op \in NetworkQueries =>
    \A i \in 1..Len(lastOp.result) :
      HeadersExposed(lastOp.result[i]) \cap SensitiveHeaders = {}

\* C19: discoverServer takes an endpoint only if its identity response is ok
\* and carries the exact signature: only a fetch answered that way changes
\* discoveredHost, discoveredPort or serverDiscovered or makes the call
\* return true, and it records that endpoint's host and port; a call that
\* returns false leaves the three as they were when it started.
C19_OnlySignedEndpointAccepted ==
  [][\A resp \in Responses :
       Probe(resp) =>
         LET cand == Candidates(envHost, envPort)[scan]
             signed == /\ ~resp.thrown /\ resp.ok /\ resp.parses
                       /\ resp.signature = "mcp-browser-connector-24x7"
         IN /\ (\/ returned' = "true"
                \/ serverDiscovered' # serverDiscovered
                \/ discoveredHost' # discoveredHost
                \/ discoveredPort' # discoveredPort) => signed
            /\ signed =>
                 /\ returned' = "true"
                 /\ serverDiscovered'
                 /\ discoveredHost' = cand.host
                 /\ discoveredPort' = cand.port
            /\ returned' = "false" =>
                 <<discoveredHost', discoveredPort', serverDiscovered'>> = atCall]_vars

\* C19 witness: a first call took the server at 192.168.1.5:4000; after a
\* failed API call a second discovery tried every candidate, matched none and
\* returned false, and host and port are still the ones of the first call.
C19_Witness ==
  /\ nDiscover = 2
  /\ returned = "false"
  /\ discoveredHost = "192.168.1.5"
  /\ discoveredPort = 4000
  /\ ~serverDiscovered

\* how capture request r failed, or "none" (not answered, or answered 200)
FailureOf(r) ==
  IF http[r] = <<>> THEN "none"
  ELSE IF promise[r] = "none" THEN "no-connection"
  ELSE IF promise[r] = "timeout" THEN "timeout"
  ELSE IF promise[r] = "error" THEN "agent-error"
  ELSE IF http[r][1].status # 200 THEN "filesystem"
  ELSE "none"

\* C20: a failed capture is answered with a message, and two captures that
\* failed in different ways (no connection, timeout, error reported by the
\* extension, filesystem failure) are answered with different statuses.
C20_FailuresDistinctByStatus ==
  \A r1, r2 \in Reqs :
    (FailureOf(r1) # "none" /\ FailureOf(r2) # "none") =>
      /\ http[r1][1].error # ""
      /\ FailureOf(r1) # FailureOf(r2) => http[r1][1].status # http[r2][1].status

\* C21: two capture requests that are pending at the same time have distinct
\* requestIds, and each has its own record in screenshotCallbacks.
C21_PendingIdsDistinct ==
  \A a, b \in Reqs :
    (a # b /\ promise[a] = "pending" /\ promise[b] = "pending") =>
      reqId[a] # reqId[b]

\* C22: normalizing a string twice with the same limit gives the same result as
\* normalizing it once, on the agent and on the server, also when the first
\* result (cut string plus marker) is itself longer than the limit.
C22_TruncationIdempotent ==
  (norm.op = "again" /\ norm.first.t = "string") => norm.output = norm.input

C22_Witness ==
  /\ norm.op = "again"
  /\ norm.first.t = "string"
  /\ Len(norm.first.s) > norm.limit
  /\ norm.limit >= 1
  /\ norm.input # norm.first
  /\ Len(norm.input.s) > norm.limit
  /\ norm.output = norm.input

\* every string leaf of v has at most maxLength characters
RECURSIVE LeavesWithin(_, _)
LeavesWithin(v, maxLength) ==
  CASE v.t = "string" -> Len(v.s) <= maxLength
    [] v.t = "array" -> \A i \in 1..Len(v.items) : LeavesWithin(v.items[i], maxLength)
    [] v.t = "object" ->
         \A i \in 1..Len(v.entries) : LeavesWithin(v.entries[i].value, maxLength)
    [] v.t = "nested" -> LeavesWithin(v.inner, maxLength)
    [] OTHER -> TRUE

\* the largest number of containers around any value inside v (v is not cyclic)
RECURSIVE NestingDepth(_)
NestingDepth(v) ==
  CASE v.t = "array" ->
         IF v.items = <<>> THEN 0
         ELSE 1 + (CHOOSE d \in {NestingDepth(v.items[i]) : i \in 1..Len(v.items)} :
                     \A i \in 1..Len(v.items) : NestingDepth(v.items[i]) <= d)
    [] v.t = "object" ->
         IF v.entries = <<>> THEN 0
         ELSE 1 + (CHOOSE d \in {NestingDepth(v.entries[i].value) :
                                   i \in 1..Len(v.entries)} :
                     \A i \in 1..Len(v.entries) : NestingDepth(v.entries[i].value) <= d)
    [] v.t = "nested" -> v.levels + NestingDepth(v.inner)
    [] OTHER -> 0

Containers == {"array", "object", "nested"}

\* C23 as stated: a nested object or array of any depth whose string leaves
\* all have at most L characters comes back from the normalizer equal to the
\* input.
C23_StructurePreservedAnyDepth ==
  (/\ norm.op = "truncate"
   /\ norm.input.t \in Containers
   /\ LeavesWithin(norm.input, norm.limit)) => norm.output = norm.input

\* C23 amended: the same, for values in which nothing lies more than
\* MaxDepth containers deep.
C23_StructurePreservedToMaxDepth ==
  (/\ norm.op = "truncate"
   /\ norm.input.t \in Containers
   /\ NestingDepth(norm.input) <= MaxDepth
   /\ LeavesWithin(norm.input, norm.limit)) => norm.output = norm.input

C23_Witness ==
  /\ norm.op = "truncate"
  /\ norm.side = "agent"
  /\ norm.input.t = "nested"
  /\ NestingDepth(norm.input) = MaxDepth
  /\ norm.input.inner.t = "string"
  /\ Len(norm.input.inner.s) = norm.limit
  /\ norm.output = norm.input

\* sum of the serialized sizes of the items of a sequence
RECURSIVE SizeSum(_)
SizeSum(items) ==
  IF items = <<>> THEN 0
  ELSE Len(JsonStringify(Head(items))) + SizeSum(Tail(items))

\* C24: processArrayWithSizeLimit(arr, maxTotalSize, f) returns a prefix of
\* map(f, arr): the items kept are the first ones, in order; their serialized
\* sizes sum to at most maxTotalSize; and when an item was left out, it is
\* because the first item not kept would have pushed the total above
\* maxTotalSize.
C24_SizeLimitedPrefix ==
  norm.op = "array" =>
    LET mapped == [i \in 1..Len(norm.input) |->
                     truncateStringsInData(norm.input[i], norm.limit, 0)]
        n == Len(norm.output)
    IN /\ n <= Len(mapped)
       /\ norm.output = SubSeq(mapped, 1, n)
       /\ SizeSum(norm.output) <= norm.maxTotalSize
       /\ n < Len(mapped) =>
            SizeSum(norm.output) + Len(JsonStringify(mapped[n + 1])) > norm.maxTotalSize

C24_Witness ==
  /\ norm.op = "array"
  /\ Len(norm.output) >= 1
  /\ Len(norm.output) < Len(norm.input)
  /\ norm.output[1] # norm.input[1]

\* the value reached k levels down the first member of each container
\* ([t |-> "absent"] when there is none)
RECURSIVE Below(_, _)
Below(v, k) ==
  CASE k = 0 -> v
    [] k > 0 /\ v.t = "cyclic" -> v
    [] k > 0 /\ v.t = "nested" ->
         IF k <= v.levels THEN Peel(v, k) ELSE Below(v.inner, k - v.levels)
    [] k > 0 /\ v.t = "array" /\ v.items # <<>> -> Below(v.items[1], k - 1)
    [] k > 0 /\ v.t = "object" /\ v.entries # <<>> -> Below(v.entries[1].value, k - 1)
    [] OTHER -> [t |-> "absent"]

\* the JavaScript kind of a value: what typeof and Array.isArray tell apart
KindOf(v) == IF v.t \in {"nested", "cyclic"} THEN v.kind ELSE v.t

\* C25: the agent-side normalizer is depth-bounded.  Whatever it reaches at
\* depth <= 100 is processed normally (a container stays a container of the
\* same kind, a string is cut by the length rule, other leaves are kept);
\* whatever it reaches at depth 101 is replaced by '[MAX_DEPTH_EXCEEDED]' and
\* nothing lies below the sentinel; and every call, cyclic inputs included,
\* returns.
C25_DepthBounded ==
  (norm.op = "truncate" /\ norm.side = "agent") =>
    \A k \in 0..MaxDepth + 2 :
      LET in == Below(norm.input, k)
          out == Below(norm.output, k)
      IN IF in.t = "absent" THEN out.t = "absent"
         ELSE IF k > MaxDepth + 1 THEN out.t = "absent"
         ELSE IF k = MaxDepth + 1 THEN out = Str(MaxDepthExceeded)
         ELSE /\ KindOf(out) = KindOf(in)
              /\ in.t = "string" =>
                   out = IF Len(in.s) > norm.limit
                         THEN Str(SubSeq(in.s, 1, norm.limit) \o "... (truncated)")
                         ELSE in
              /\ in.t \in {"number", "null"} => out = in

C25_Witness ==
  /\ norm.op = "truncate"
  /\ norm.side = "agent"
  /\ norm.input.t = "cyclic"
  /\ Below(norm.output, MaxDepth).t = "nested"
  /\ Below(norm.output, MaxDepth + 1) = Str(MaxDepthExceeded)

\* a step that ingests a selected-element entry
SelectedElementIngest(body) ==
  /\ ExtensionLog(body)
  /\ "data" \in DOMAIN body
  /\ body.data.type = "selected-element"

\* what C26 says of one step
SelectedElementStep ==
  /\ \A body \in Bodies :
       SelectedElementIngest(body) =>
         /\ selectedElement' = body.data.element
         /\ \A b \in BufferNames : BufferOf(b)' = BufferOf(b)
  /\ \A data \in {ElementB, Null} :
       PostSelectedElement(data) => selectedElement' = data
  /\ Wipelogs => selectedElement' = Null
  /\ (/\ \A body \in Bodies : ~SelectedElementIngest(body)
      /\ \A data \in {ElementB, Null} : ~PostSelectedElement(data)
      /\ ~Wipelogs) => selectedElement' = selectedElement
  /\ lastOp'.op = "selected-element" =>
       lastOp'.result = <<IF selectedElement \in {ElementA, ElementB}
                          THEN selectedElement
                          ELSE [message |-> "No element selected"]>>

\* C26: the selected-element slot is most-recent-wins.  A selected-element
\* ingest puts its element in the slot and leaves the four buffers alone, a
\* POST /selected-element puts its data in the slot, a wipe empties it, and no
\* other step touches it; the selected-element query answers with the slot,
\* or with the 'No element selected' placeholder when the slot is empty.
C26_SelectedElementMostRecentWins == [][SelectedElementStep]_vars

C26_Witness ==
  /\ lastOp.op = "selected-element"
  /\ lastOp.result = <<ElementB>>
  /\ nIngest >= 1
  /\ \E b \in BufferNames : BufferOf(b) # <<>>

\* C27: getNetworkLogs returns all network logs: whenever the merged network
\* view fits the query byte budget whole, every entry held in the
\* network-success buffer and every entry held in the network-errors buffer
\* appears in the tool's result.
C27_GetNetworkLogsReturnsAll ==
  (/\ lastOp.op = "getNetworkLogs"
   /\ Len(QueryAllXhr) = Len(networkSuccess) + Len(networkErrors)) =>
    \A i \in 1..Len(QueryAllXhr) :
      \E j \in 1..Len(lastOp.result) : lastOp.result[j] = QueryAllXhr[i]

\* the requests whose promise is still pending
Pending == {r \in Reqs : promise[r] = "pending"}

\* the socket delivers a screenshot-data message with a payload or a
\* screenshot-error message
ScreenshotResponse(m) ==
  /\ Handling(m) # "unhandled"
  /\ \E s \in Socks, fsOk \in BOOLEAN : OnMessage(s, m, fsOk)

\* C28: each inbound screenshot-data (with payload) or screenshot-error
\* message settles exactly one capture caller when at least one request is
\* pending, and none when no request is pending.
C28_OneCallerPerResponse ==
  [][\A m \in Messages :
       ScreenshotResponse(m) =>
         Cardinality({r \in Pending : promise'[r] # "pending"})
           = IF Pending = {} THEN 0 ELSE 1]_vars

\* the request registered last among the pending ones (requests are numbered
\* in the order of their registration)
LastRegistered == CHOOSE r \in Pending : \A q \in Pending : q <= r

\* C29: when several capture requests are pending, the next inbound
\* screenshot response settles the most recently registered one.
C29_ResponseSettlesMostRecent ==
  [][\A m \in Messages :
       (ScreenshotResponse(m) /\ Cardinality(Pending) >= 2) =>
         promise'[LastRegistered] # "pending"]_vars

\* request r has a record in screenshotCallbacks
InMap(r) == \E i \in 1..Len(screenshotCallbacks) : screenshotCallbacks[i].req = r

\* C30: the record of a pending request is created when its capture command
\* is sent and is removed only by the response for that request or by that
\* request's own deadline.
C30_RecordRemovedOnlyByOwnEvent ==
  [][\A r \in Reqs :
       /\ (~InMap(r) /\ InMap(r)') => (CaptureScreenshot /\ nReq' = r)
       /\ (InMap(r) /\ ~InMap(r)') =>
            \/ TimerFires(r)
            \/ \E m \in Messages : ScreenshotResponse(m) /\ m.replyTo = r]_vars

\* ------------------------------------------------------------------------
\* The correlator with a caller that keeps one request in flight
\* ------------------------------------------------------------------------
\* a screenshot response is the extension's reply to the command of a request
\* that is still pending, and it arrives before that request's deadline
ReplyInTime(m) ==
  Handling(m) # "unhandled" =>
    /\ m.replyTo # 0
    /\ promise[m.replyTo] = "pending"
    /\ now < due[m.replyTo]

\* captureScreenshot is called only while no request is pending
NextShotSerial ==
  \/ \E s \in Socks : Connection(s)
  \/ \E s \in Socks : Close(s)
  \/ Pending = {} /\ CaptureScreenshot
  \/ \E s \in Socks, m \in Messages, fsOk \in BOOLEAN :
        ReplyInTime(m) /\ OnMessage(s, m, fsOk)
  \/ \E r \in Reqs : TimerFires(r)
  \/ \E d \in {1, ScreenshotTimeout} : Tick(d)

SpecShotSerial == Init /\ [][NextShotSerial]_vars

\* a pending request whose deadline has not passed has its record first in
\* the map, where the message handler looks for it
PendingIsFirst ==
  \A r \in Pending :
    now < due[r] => (screenshotCallbacks # <<>> /\ screenshotCallbacks[1].req = r)

\* C31: with at most one capture request in flight at any time and every reply
\* arriving before the deadline of the request that triggered it, a screenshot
\* response finds the record of the request it replies to, settles that
\* request with its own outcome (payload or error), and settles no other
\* request.
C31_SettledByOwnReply ==
  /\ []PendingIsFirst
  /\ [][\A m \in Messages :
          (ScreenshotResponse(m) /\ ReplyInTime(m)) =>
            /\ promise'[m.replyTo]
                 = (IF m.type = "screenshot-error" THEN "error" ELSE "data")
            /\ \A r \in Reqs \ {m.replyTo} : promise'[r] = promise[r]]_vars

C31_Witness ==
  /\ promise[1] = "data"
  /\ promise[2] = "error"
  /\ reqId[1] = reqId[2]

\* the four buffers as stored, by the query that reads them
StoredFor(op) ==
  CASE op = "console-logs" -> consoleLogs
    [] op = "console-errors" -> consoleErrors
    [] op = "network-errors" -> networkErrors
    [] op = "network-success" -> networkSuccess

\* an entry as a query shows it: a network request loses the header fields
\* whose show flag is off
ShownEntry(log) ==
  LET hidden == IF log.type = "network-request"
                THEN {k \in {"requestHeaders"} : ~currentSettings.showRequestHeaders}
                     \cup {k \in {"responseHeaders"} : ~currentSettings.showResponseHeaders}
                ELSE {}
  IN [k \in (DOMAIN log) \ hidden |-> log[k]]

\* C32: a query of one of the four buffers returns the longest prefix, in
\* stored order, of the header-stripped entries whose serialized sizes sum to
\* at most queryLimit: it stops at the first entry that does not fit, so the
\* newest entries are the ones dropped, and the buffer is not reordered.
C32_QueryIsLongestFittingPrefix ==
  lastOp.op \in {"console-logs", "console-errors", "network-errors", "network-success"} =>
    LET stored == StoredFor(lastOp.op)
        shown == [i \in 1..Len(stored) |-> ShownEntry(stored[i])]
        n == Len(lastOp.result)
    IN /\ n <= Len(stored)
       /\ lastOp.result = SubSeq(shown, 1, n)
       /\ SumSizes(lastOp.result) <= currentSettings.queryLimit
       /\ n < Len(stored) =>
            SumSizes(lastOp.result) + Len(Stringify(shown[n + 1]))
              > currentSettings.queryLimit

C32_Witness ==
  /\ lastOp.op = "console-logs"
  /\ Len(consoleLogs) >= 2
  /\ consoleLogs[1].timestamp < consoleLogs[Len(consoleLogs)].timestamp
  /\ lastOp.result = <<consoleLogs[1]>>

\* what C33 allows one step to do to buffer b
RemovalsAllowed(b) ==
  LET old == BufferOf(b)
      new == BufferOf(b)'
  IN \/ new = old
     \/ \E body \in Bodies :
          /\ ExtensionLog(body)
          /\ "data" \in DOMAIN body
          /\ body.data.type \in BufferTypes
          /\ ClaimedBuffer(body.data) = b
          /\ new \in {Append(old, body.data), Tail(Append(old, body.data))}
     \/ Wipelogs /\ new = <<>>

\* what C33 says of one step
NoRetroactiveTrimStep ==
  /\ \A body \in Bodies :
       (ExtensionLog(body) /\ "data" \notin DOMAIN body) =>
         \A b \in BufferNames : BufferOf(b)' = BufferOf(b)
  /\ \A b \in BufferNames : RemovalsAllowed(b)

\* C33: lowering logLimit removes nothing at the moment of the update: an
\* ingest that carries only settings leaves every buffer as it was, and the
\* only removals are the eviction of the single oldest entry by an append to
\* that same buffer (at most one per append) and a wipe.
C33_NoRetroactiveTrim == [][NoRetroactiveTrimStep]_vars

C33_Witness ==
  /\ lastOp.op = "extension-log"
  /\ lastOp.status = 400
  /\ currentSettings.logLimit = 1
  /\ Len(consoleLogs) = 2

\* C34: settings are applied before the data check: an ingest envelope that
\* carries settings but no data is answered 400 and still changes the
\* settings registry (each field it carries takes its value, the others keep
\* theirs); nothing but the settings changes.
C34_SettingsAppliedBeforeDataCheck ==
  [][\A body \in Bodies :
       (ExtensionLog(body) /\ "settings" \in DOMAIN body /\ "data" \notin DOMAIN body) =>
         /\ lastOp'.status = 400
         /\ \A k \in DOMAIN currentSettings' :
              currentSettings'[k] = IF k \in DOMAIN body.settings
                                    THEN body.settings[k] ELSE currentSettings[k]
         /\ \A b \in BufferNames : BufferOf(b)' = BufferOf(b)
         /\ selectedElement' = selectedElement]_vars

C34_Witness ==
  /\ nIngest = 1
  /\ lastOp.op = "extension-log"
  /\ lastOp.status = 400
  /\ currentSettings.logLimit = 2

\* the socket that connected last (sockets connect in the order of their
\* numbers), 0 when none has connected
MostRecentSocket(socks) ==
  IF \A s \in Socks : socks[s] = "new" THEN 0
  ELSE CHOOSE s \in Socks :
         socks[s] # "new" /\ \A t \in Socks : socks[t] # "new" => t <= s

\* what C35 says of one step
ActiveConnectionStep ==
  /\ activeConnection' # 0 =>
       /\ activeConnection' = MostRecentSocket(sockets')
       /\ sockets'[activeConnection'] = "open"
  /\ \A s \in Socks :
       (Close(s) /\ activeConnection # s) => activeConnection' = activeConnection

\* C35: the active-connection reference is always null or the most recently
\* connected agent socket, which has not closed; the close of a socket that a
\* newer connection has superseded leaves the reference to the newer one.
C35_ActiveIsMostRecentOpen == [][ActiveConnectionStep]_vars

C35_Witness ==
  /\ activeConnection = 2
  /\ sockets[1] = "closed"
  /\ sockets[2] = "open"

\* what C36 says of one step
ReconnectStep ==
  /\ \A s \in Socks :
       Close(s) => (promise' = promise /\ screenshotCallbacks' = screenshotCallbacks)
  /\ \A m \in Messages :
       (/\ ScreenshotResponse(m)
        /\ m.replyTo \in orphaned
        /\ promise[m.replyTo] = "pending"
        /\ now < due[m.replyTo]) => promise'[m.replyTo] # "pending"

\* C36: a capture request that is pending when the agent disconnects is not
\* settled by the disconnect, and the screenshot response to it that arrives
\* on any open connection before its deadline settles it.
C36_SettledAfterReconnect == [][ReconnectStep]_vars

\* the answer each query gives in the current state
AnswerTo(op) ==
  CASE op = "console-logs" -> QueryConsoleLogs
    [] op = "console-errors" -> QueryConsoleErrors
    [] op = "network-errors" -> QueryNetworkErrors
    [] op = "network-success" -> QueryNetworkSuccess
    [] op = "all-xhr" -> QueryAllXhr
    [] op = "selected-element" -> <<QuerySelectedElement>>

\* what C37 says of one step
ReadOnlyQueryStep ==
  lastOp'.op \in BufferQueries \cup {"selected-element"} =>
    /\ \A b \in BufferNames : BufferOf(b)' = BufferOf(b)
    /\ currentSettings' = currentSettings
    /\ selectedElement' = selectedElement
    /\ screenshotCallbacks' = screenshotCallbacks

\* the same query asked again right after a query gives the answer just given
SameAnswerAgain ==
  lastOp.op \in BufferQueries \cup {"selected-element"} =>
    lastOp.result = AnswerTo(lastOp.op)

\* C37: queries are read-only: a query of a buffer, of all-xhr or of the
\* selected element leaves the four buffers, the settings, the selected
\* element and the pending-screenshot map unchanged, and the same query asked
\* again in the state it leaves gives the same answer.
C37_QueriesReadOnly == []SameAnswerAgain /\ [][ReadOnlyQueryStep]_vars

C37_Witness ==
  /\ lastOp.op = "network-errors"
  /\ Len(lastOp.result) = Len(networkErrors)
  /\ Len(networkErrors) >= 1
  /\ "requestHeaders" \in DOMAIN networkErrors[1]
  /\ "requestHeaders" \notin DOMAIN lastOp.result[1]

\* C38: one withServerConnection call invokes the API call at most twice, the
\* second time only after the first threw and the rediscovery returned true;
\* it never throws, and once it has returned it has returned a result; after
\* a failed first API call serverDiscovered is true exactly when the
\* rediscovery has succeeded.
C38_AtMostOneRetry ==
  /\ apiCalls <= 2
  /\ apiCalls = 2 => (firstThrew /\ returned = "true")
  /\ wscResult # "thrown"
  /\ wscPc = "returned" =>
        wscResult \in {"value", FailedToDiscover, FailedToReconnect, ErrorAfterReconnect}
  /\ wscResult = FailedToReconnect => (apiCalls = 1 /\ ~serverDiscovered)
  /\ firstThrew => (serverDiscovered <=> returned = "true")

\* C38 witness: the first API call threw, the rediscovery found the server,
\* the retry threw too and the call returned an error result.
C38_Witness ==
  /\ wscPc = "returned"
  /\ apiCalls = 2
  /\ wscResult = ErrorAfterReconnect
  /\ serverDiscovered

\* the ports from startPort on that the call would find in use before any other
PortsBefore(q) == portArgs.startPort..(q - 1)

\* C39: getAvailablePort returns only a port its own test listen succeeded
\* on, the first such port from startPort on, and it throws once maxAttempts
\* ports have been found in use.
C39_ReturnsFirstListenablePort ==
  /\ portResult = "returned" =>
        /\ \E i \in DOMAIN listened : listened[i] = currentPort
        /\ listenOutcome[currentPort] = "listening"
        /\ \A q \in PortsBefore(currentPort) : listenOutcome[q] # "listening"
  /\ portResult = "thrown" =>
        /\ attempts = portArgs.maxAttempts
        /\ \A q \in PortsBefore(currentPort) : listenOutcome[q] # "listening"
  /\ (/\ portResult \in {"returned", "thrown"}
      /\ \A q \in PortsBefore(portArgs.startPort + portArgs.maxAttempts) :
            listenOutcome[q] = "EADDRINUSE") => portResult = "thrown"

\* at most one reconnect timer is outstanding and at most one socket of the
\* agent is open or connecting
OneTimerOneSocket ==
  /\ Cardinality({t \in AgentIds : agentTimers[t] = "armed"}) <= 1
  /\ Cardinality({s \in AgentIds : agentSockets[s] \in {"connecting", "open"}}) <= 1
  /\ (\E t \in AgentIds : agentTimers[t] = "armed") =>
        \A s \in AgentIds : agentSockets[s] \notin {"connecting", "open"}

\* what C40 says of one step
ReconnectStep40 ==
  /\ \A s \in AgentIds :
        (agentSockets[s] # "closed" /\ agentSockets'[s] = "closed") =>
          \E t \in AgentIds :
            /\ agentTimers[t] = "none"
            /\ agentTimers'[t] = "armed"
            /\ agentDue'[t] = agentNow + WS_RECONNECT_DELAY
  /\ \A t \in AgentIds :
        (agentTimers[t] = "armed" /\ agentTimers'[t] # "armed") =>
          /\ agentTimers'[t] = "fired"
          /\ agentNow = agentDue[t]
          /\ \E s \in AgentIds :
                agentSockets[s] = "none" /\ agentSockets'[s] = "connecting"

\* C40: whenever a socket of the agent closes, whether it had opened or not,
\* a reconnect timer is armed for 5 s later; that timer is not cancelled, and
\* when it fires a new connection attempt starts; at most one reconnect
\* timer is outstanding and at most one socket is open or connecting.
C40_ReconnectEveryFiveSeconds == []OneTimerOneSocket /\ [][ReconnectStep40]_vars

\* C40 witness: the first connection was lost, the second attempt failed
\* without opening, and the third attempt, 10 s after the loss, is open.
C40_Witness ==
  /\ 1 \in agentOpened /\ agentSockets[1] = "closed"
  /\ 2 \notin agentOpened /\ agentSockets[2] = "closed"
  /\ agentSockets[3] = "open"
  /\ agentTimers[1] = "fired" /\ agentTimers[2] = "fired"
  /\ agentDue[2] = agentDue[1] + WS_RECONNECT_DELAY

====
